---- MODULE Spec2Model ----
(***************************************************************************)
(* Model of moonraker: the sandboxed Lua Environment (environment.rs), the *)
(* notebook Repl with its Cell parser (repl.rs), the Rlm orchestrator and  *)
(* its iterator (rlm.rs), the CLI driver loop (bin/moonraker.rs) and the   *)
(* run_cell tool (tools/run_cell.rs).                                      *)
(*                                                                         *)
(* Text is a sequence of atoms (each atom a TLA+ string standing for one   *)
(* indivisible piece of text).  Option<String> is a record [some, s].      *)
(***************************************************************************)
EXTENDS Integers, Sequences, FiniteSets, TLC

\* ------------------------------------------------------------------ bounds
\* Largest max_iterations handed to Rlm::execute.
MaxIterations == 3
\* Number of concurrent run_cell calls sharing one Repl.
NumCalls == 2
\* Number of Repl::eval calls made on one Repl by direct callers.
MaxEvals == 2

\* ------------------------------------------------------- program constants
MAX_OUTPUT_TOKENS == 200

\* ------------------------------------------------------------ text helpers
None == [some |-> FALSE, s |-> <<>>]
Some(t) == [some |-> TRUE, s |-> t]

Whitespace == {" ", "\n", "\t"}

\* Concatenation of a sequence of texts (halving keeps the recursion shallow).
RECURSIVE Concat(_)
Concat(ss) ==
    IF ss = <<>> THEN <<>>
    ELSE IF Len(ss) = 1 THEN ss[1]
    ELSE LET mid == Len(ss) \div 2
         IN  Concat(SubSeq(ss, 1, mid)) \o Concat(SubSeq(ss, mid + 1, Len(ss)))

\* parts.join(sep)
RECURSIVE Join(_, _)
Join(parts, sep) ==
    IF parts = <<>> THEN <<>>
    ELSE IF Len(parts) = 1 THEN parts[1]
    ELSE parts[1] \o sep \o Join(Tail(parts), sep)

IsPrefix(p, t) == Len(p) <= Len(t) /\ SubSeq(t, 1, Len(p)) = p

\* str::trim: drop the whitespace at both ends.
RECURSIVE TrimStart(_)
TrimStart(t) ==
    IF t # <<>> /\ Head(t) \in Whitespace THEN TrimStart(Tail(t)) ELSE t

RECURSIVE TrimEnd(_)
TrimEnd(t) ==
    IF t # <<>> /\ t[Len(t)] \in Whitespace
    THEN TrimEnd(SubSeq(t, 1, Len(t) - 1)) ELSE t

Trim(t) == TrimEnd(TrimStart(t))

\* str::to_lowercase on the atoms used for the final flag.
LowerAtom(a) ==
    CASE a = "TRUE" -> "true"
      [] a = "True" -> "true"
      [] a = "YES" -> "yes"
      [] a = "Yes" -> "yes"
      [] OTHER -> a

to_lowercase(t) == [i \in 1..Len(t) |-> LowerAtom(t[i])]

\* ---------------------------------------------------------------- tokenizer
\* p50k_base is an external collaborator.  The model keeps what the callers
\* rely on: every atom encodes to one token, except the multi-byte character
\* "E", which encodes to the two byte-level tokens "E1" "E2"; decode puts the
\* tokens' bytes together and fails when they are not valid UTF-8 (an "E"
\* cut in the middle).
TokensOf(atom) == IF atom = "E" THEN <<"E1", "E2">> ELSE <<atom>>

encode_with_special_tokens(t) == Concat([i \in 1..Len(t) |-> TokensOf(t[i])])

ValidUtf8(t) ==
    \A i \in 1..Len(t) :
        /\ t[i] = "E1" => (i < Len(t) /\ t[i + 1] = "E2")
        /\ t[i] = "E2" => (i > 1 /\ t[i - 1] = "E1")

\* The characters a valid token sequence spells: "E1" "E2" is one "E".
Characters(heads) == [i \in 1..Len(heads) |-> IF heads[i] = "E1" THEN "E" ELSE heads[i]]

\* bpe.decode(tokens): [ok, s]
decode(tokens) ==
    LET NotTail(x) == x # "E2"
    IN  IF ValidUtf8(tokens)
        THEN [ok |-> TRUE, s |-> Characters(SelectSeq(tokens, NotTail))]
        ELSE [ok |-> FALSE, s |-> <<>>]

\* -------------------------------------------------------------- Lua values
Nil == [t |-> "nil", s |-> <<>>]
Str(x) == [t |-> "str", s |-> x]

\* A Rust function made by lua.create_function, with what its closure
\* captured; a table of a standard library.
Fn(name, captured) == [t |-> "function", s |-> <<name>> \o captured]
Lib(name) == [t |-> "table", s |-> <<name>>]

\* LlmClient
Ollama(model) == <<"ollama", model>>
Openrouter(model, api_key) == <<"openrouter", model, api_key>>
Clients == { Ollama("qwen3:30b"), Openrouter("gpt", "key") }

\* The globals a script of the model can bind.
GlobalNames == {"a", "b", "context"}

\* The functions Environment::new registers as globals.
FunctionNames == {"print", "llm_query", "token_trunc"}

\* Lua::new(): the standard libraries of mlua's StdLib::ALL_SAFE, which is
\* every library but debug and ffi.
Lua_new == {"coroutine", "table", "io", "os", "string", "utf8", "math", "package"}

\* Value::to_string, as print applies it to each argument.
to_string(v) ==
    CASE v.t = "nil" -> <<"nil">>
      [] v.t = "str" -> v.s
      [] OTHER -> <<v.t, ": ", "0x">>

\* An output of more than MAX_OUTPUT_TOKENS tokens.
LongText == [i \in 1..(MAX_OUTPUT_TOKENS + 1) |-> "x"]
\* An output of exactly MAX_OUTPUT_TOKENS tokens.
FullText == [i \in 1..MAX_OUTPUT_TOKENS |-> "x"]
\* An output whose tokens MAX_OUTPUT_TOKENS and MAX_OUTPUT_TOKENS + 1 are the
\* two halves of one multi-byte character.
WideText == [i \in 1..(MAX_OUTPUT_TOKENS + 1) |->
                IF i = MAX_OUTPUT_TOKENS THEN "E" ELSE "x"]
\* An output that goes well past MAX_OUTPUT_TOKENS tokens.
LongerText == [i \in 1..(MAX_OUTPUT_TOKENS + 20) |-> "x"]

Lit(x) == [k |-> "lit", n |-> "", v |-> x]
NilLit == [k |-> "nil", n |-> "", v |-> <<>>]
Var(n) == [k |-> "var", n |-> n, v |-> <<>>]

\* The Lua statements of the model, one per code atom; any other atom that is
\* not whitespace does not compile.
StmtAtoms ==
    { "a = 'x'", "a = 'y'", "b = a", "context = 'z'", "print(a)",
      "print(context)", "print(a, b)", "print('')", "print(long)",
      "error('boom')", "a = llm_query(context)",
      "a = ''", "print(a, b, context)", "print(full)", "print(wide)",
      "print(longer)", "error(long)",
      "a = llm_query('q')", "a = llm_query(b)", "a = 'xE'",
      "b = token_trunc(a, 0)", "b = token_trunc(a, 1)", "b = token_trunc(a, 2)",
      "b = token_trunc(a, 3)", "b = token_trunc(a, 1000)", "print = nil",
      "print('old')" }

StmtOf(atom) ==
    CASE atom = "a = 'x'" -> [op |-> "set", name |-> "a", args |-> <<Lit(<<"x">>)>>]
      [] atom = "a = 'y'" -> [op |-> "set", name |-> "a", args |-> <<Lit(<<"y">>)>>]
      [] atom = "b = a" -> [op |-> "set", name |-> "b", args |-> <<Var("a")>>]
      [] atom = "context = 'z'" ->
            [op |-> "set", name |-> "context", args |-> <<Lit(<<"z">>)>>]
      [] atom = "print(a)" -> [op |-> "print", name |-> "", args |-> <<Var("a")>>]
      [] atom = "print(context)" ->
            [op |-> "print", name |-> "", args |-> <<Var("context")>>]
      [] atom = "print(a, b)" ->
            [op |-> "print", name |-> "", args |-> <<Var("a"), Var("b")>>]
      [] atom = "print('')" -> [op |-> "print", name |-> "", args |-> <<Lit(<<>>)>>]
      [] atom = "print(long)" ->
            [op |-> "print", name |-> "", args |-> <<Lit(LongText)>>]
      [] atom = "error('boom')" ->
            [op |-> "error", name |-> "", args |-> <<Lit(<<"boom">>)>>]
      [] atom = "error(long)" -> [op |-> "error", name |-> "", args |-> <<Lit(LongText)>>]
      [] atom = "a = ''" -> [op |-> "set", name |-> "a", args |-> <<Lit(<<>>)>>]
      [] atom = "print(a, b, context)" ->
            [op |-> "print", name |-> "",
             args |-> <<Var("a"), Var("b"), Var("context")>>]
      [] atom = "print(full)" ->
            [op |-> "print", name |-> "", args |-> <<Lit(FullText)>>]
      [] atom = "print(wide)" ->
            [op |-> "print", name |-> "", args |-> <<Lit(WideText)>>]
      [] atom = "print(longer)" ->
            [op |-> "print", name |-> "", args |-> <<Lit(LongerText)>>]
      [] atom = "a = llm_query(context)" ->
            [op |-> "llm", name |-> "a", args |-> <<Var("context")>>]
      [] atom = "a = llm_query('q')" ->
            [op |-> "llm", name |-> "a", args |-> <<Lit(<<"q">>)>>]
      [] atom = "a = llm_query(b)" ->
            [op |-> "llm", name |-> "a", args |-> <<Var("b")>>]
      [] atom = "a = 'xE'" -> [op |-> "set", name |-> "a", args |-> <<Lit(<<"x", "E">>)>>]
      [] atom = "b = token_trunc(a, 0)" ->
            [op |-> "trunc", name |-> "b", args |-> <<Var("a")>>, n |-> 0]
      [] atom = "b = token_trunc(a, 1)" ->
            [op |-> "trunc", name |-> "b", args |-> <<Var("a")>>, n |-> 1]
      [] atom = "b = token_trunc(a, 2)" ->
            [op |-> "trunc", name |-> "b", args |-> <<Var("a")>>, n |-> 2]
      [] atom = "b = token_trunc(a, 3)" ->
            [op |-> "trunc", name |-> "b", args |-> <<Var("a")>>, n |-> 3]
      [] atom = "b = token_trunc(a, 1000)" ->
            [op |-> "trunc", name |-> "b", args |-> <<Var("a")>>, n |-> 1000]
      [] atom = "print('old')" ->
            [op |-> "print", name |-> "", args |-> <<Lit(<<"old">>)>>]
      [] atom = "print = nil" -> [op |-> "set", name |-> "print", args |-> <<NilLit>>]
      [] OTHER -> [op |-> "invalid", name |-> "", args |-> <<>>]

EvalExpr(e, g) ==
    CASE e.k = "lit" -> Str(e.v)
      [] e.k = "nil" -> Nil
      [] OTHER -> g[e.n]

\* The statements of a chunk: its atoms without the whitespace.
RECURSIVE Statements(_)
Statements(code) ==
    IF code = <<>> THEN <<>>
    ELSE IF Head(code) \in Whitespace THEN Statements(Tail(code))
    ELSE <<Head(code)>> \o Statements(Tail(code))

\* lua.load(code): the chunk compiles when every statement is one of Lua's.
Compiles(code) == \A i \in 1..Len(Statements(code)) : Statements(code)[i] \in StmtAtoms

\* create_print_function joining the arguments with spaces (mutant).
print_Spaces(args, buf) ==
    LET strings == [i \in 1..Len(args) |-> to_string(args[i])]
        sep == IF buf # <<>> THEN <<"\n">> ELSE <<>>
    IN  buf \o sep \o Join(strings, <<" ">>)

\* create_print_function: stringify the arguments, join them with tabs, put a
\* newline first when the buffer is not empty, append.
print(args, buf) ==
    LET strings == [i \in 1..Len(args) |-> to_string(args[i])]
        sep == IF buf # <<>> THEN <<"\n">> ELSE <<>>
    IN  buf \o sep \o Join(strings, <<"\t">>)

\* What a call of a Rust function from Lua comes to: a value, a Lua runtime
\* error, or a panic of the Rust function; sent is the requests it made.
Gave(v, sent) == [ok |-> TRUE, v |-> v, err |-> <<>>, panic |-> FALSE, sent |-> sent]
Raised(e, sent) == [ok |-> FALSE, v |-> Nil, err |-> e, panic |-> FALSE, sent |-> sent]
Panicked == [ok |-> FALSE, v |-> Nil, err |-> <<>>, panic |-> TRUE, sent |-> <<>>]

\* The conversion of a Lua argument to a Rust String fails for nil.
BadArgument == Raised(<<"runtime error: bad argument">>, <<>>)

\* create_llm_query_function putting the context global into the request
\* (mutant).
llm_query_WithContext(lua, prompt, llm) ==
    IF ~llm.hosted THEN Panicked
    ELSE IF llm.ok
         THEN Gave(Str(llm.s), <<prompt \o to_string(lua["context"])>>)
         ELSE Raised(<<"runtime error: LLM query failed">>,
                     <<prompt \o to_string(lua["context"])>>)

\* create_llm_query_function: the closure gets the Lua state and the prompt
\* and uses the prompt only.  block_in_place and Handle::current() panic
\* when the calling thread is not a worker of a multi-thread runtime
\* (llm.hosted is false); otherwise the request is sent and the provider's
\* answer comes back as the value or as a runtime error.
llm_query(lua, prompt, llm) ==
    IF ~llm.hosted THEN Panicked
    ELSE IF llm.ok THEN Gave(Str(llm.s), <<prompt>>)
         ELSE Raised(<<"runtime error: LLM query failed">>, <<prompt>>)

\* create_token_trunc_function cutting one token more than asked (mutant).
token_trunc_OneLess(s, n) ==
    LET tokens == encode_with_special_tokens(s)
        kept == IF Len(tokens) < n THEN Len(tokens) ELSE n
        decoded == decode(SubSeq(tokens, 1, kept - 1))
    IN  IF decoded.ok THEN Gave(Str(decoded.s), <<>>)
        ELSE Raised(<<"runtime error: Failed to decode tokens">>, <<>>)

\* create_token_trunc_function: encode, keep the first min(len, n) tokens,
\* decode.
token_trunc(s, n) ==
    LET tokens == encode_with_special_tokens(s)
        kept == IF Len(tokens) < n THEN Len(tokens) ELSE n
        decoded == decode(SubSeq(tokens, 1, kept))
    IN  IF decoded.ok THEN Gave(Str(decoded.s), <<>>)
        ELSE Raised(<<"runtime error: Failed to decode tokens">>, <<>>)

\* A call of a Rust function that binds its value to the global name.
Bound(x, name, r) ==
    IF r.ok THEN [x EXCEPT !.g[name] = r.v, !.reqs = x.reqs \o r.sent]
    ELSE IF r.panic THEN [x EXCEPT !.panic = TRUE]
    ELSE [x EXCEPT !.err = Some(r.err), !.reqs = x.reqs \o r.sent]

\* A call of the global name finds the function Environment::new put there,
\* unless the script has bound the name to something else.
Registered(g, name) == g[name].t = "function" /\ g[name].s[1] = name

NotCallable(x) == [x EXCEPT !.err = Some(<<"runtime error: attempt to call a nil value">>)]

\* One statement against the state x = [g, buf, err, reqs, panic] of the
\* running chunk.
ExecStmt(st, x, llm) ==
    LET vals == [i \in 1..Len(st.args) |-> EvalExpr(st.args[i], x.g)]
    IN  CASE st.op = "set" -> [x EXCEPT !.g[st.name] = vals[1]]
          [] st.op = "print" ->
                IF ~Registered(x.g, "print") THEN NotCallable(x)
                ELSE [x EXCEPT !.buf = print(vals, x.buf)]
          [] st.op = "llm" ->
                IF ~Registered(x.g, "llm_query") THEN NotCallable(x)
                ELSE IF vals[1].t # "str" THEN Bound(x, st.name, BadArgument)
                ELSE Bound(x, st.name, llm_query(x.g, vals[1].s, llm))
          [] st.op = "trunc" ->
                IF ~Registered(x.g, "token_trunc") THEN NotCallable(x)
                ELSE IF vals[1].t # "str" THEN Bound(x, st.name, BadArgument)
                ELSE Bound(x, st.name, token_trunc(vals[1].s, st.n))
          [] st.op = "error" ->
                [x EXCEPT !.err = Some(<<"runtime error: ">> \o to_string(vals[1]))]
          [] OTHER -> [x EXCEPT !.err = Some(<<"runtime error: ">>)]

\* exec(): the statements run in order against the globals; the first error
\* stops the chunk and what ran before it stays done; a panic unwinds out of
\* the chunk.
RECURSIVE ExecFrom(_, _, _)
ExecFrom(stmts, x, llm) ==
    IF stmts = <<>> \/ x.err.some \/ x.panic THEN x
    ELSE ExecFrom(Tail(stmts), ExecStmt(StmtOf(Head(stmts)), x, llm), llm)

Exec(stmts, g, buf, llm) ==
    ExecFrom(stmts, [g |-> g, buf |-> buf, err |-> None, reqs |-> <<>>, panic |-> FALSE],
             llm)

\* lua.load(code) failing: nothing runs.
SyntaxError(g) ==
    [g |-> g, buf |-> <<>>, ok |-> FALSE, out |-> None, err |-> <<"syntax error">>,
     reqs |-> <<>>, panic |-> FALSE]

\* Environment::eval returning the buffer whether or not it is empty (mutant).
EvalResult_AlwaysSome(r) ==
    IF r.err.some \/ r.panic
    THEN [g |-> r.g, buf |-> r.buf, ok |-> FALSE, out |-> None, err |-> r.err.s,
          reqs |-> r.reqs, panic |-> r.panic]
    ELSE [g |-> r.g, buf |-> r.buf, ok |-> TRUE, out |-> Some(r.buf), err |-> <<>>,
          reqs |-> r.reqs, panic |-> FALSE]

\* The end of Environment::eval: r is what exec() left; read the buffer.
\* A panic of a Rust function called by the chunk unwinds through eval.
EvalResult(r) ==
    IF r.err.some \/ r.panic
    THEN [g |-> r.g, buf |-> r.buf, ok |-> FALSE, out |-> None, err |-> r.err.s,
          reqs |-> r.reqs, panic |-> r.panic]
    ELSE [g |-> r.g, buf |-> r.buf, ok |-> TRUE,
          out |-> IF r.buf = <<>> THEN None ELSE Some(r.buf), err |-> <<>>,
          reqs |-> r.reqs, panic |-> FALSE]

\* Environment::eval running each call in a new interpreter state (mutant).
Environment_eval_FreshState(code, g, buf, llm) ==
    IF ~Compiles(code)
    THEN SyntaxError(g)
    ELSE EvalResult(Exec(Statements(code),
                         [n \in DOMAIN g |-> IF n \in GlobalNames THEN Nil ELSE g[n]],
                         <<>>, llm))

\* Environment::eval running the statements in front of a syntax error
\* (mutant).
SyntaxErrorAfter(r) ==
    [g |-> r.g, buf |-> r.buf, ok |-> FALSE, out |-> None, err |-> <<"syntax error">>,
     reqs |-> r.reqs, panic |-> FALSE]

Environment_eval_Interpreted(code, g, buf, llm) ==
    IF ~Compiles(code)
    THEN SyntaxErrorAfter(Exec(Statements(code), g, <<>>, llm))
    ELSE EvalResult(Exec(Statements(code), g, <<>>, llm))

\* Environment::eval without the clearing of the buffer (mutant).
Environment_eval_NoClear(code, g, buf, llm) ==
    IF ~Compiles(code)
    THEN SyntaxError(g)
    ELSE EvalResult(Exec(Statements(code), g, buf, llm))

\* Environment::eval: clear the buffer, run the code, read the buffer.
\* Result: the Environment afterwards (g, buf) and Ok(out) or Err(err).
Environment_eval(code, g, buf, llm) ==
    IF ~Compiles(code)
    THEN SyntaxError(g)
    ELSE EvalResult(Exec(Statements(code), g, <<>>, llm))

\* Environment::new(init_context, client): a new Lua state with its
\* libraries, the three functions and the context as globals, and an empty
\* buffer.  llm_query's closure holds the client.
Environment_new(init_context, client) ==
    [g |-> [n \in GlobalNames \cup FunctionNames \cup Lua_new |->
                CASE n = "context" -> Str(init_context)
                  [] n = "llm_query" -> Fn(n, client)
                  [] n \in FunctionNames -> Fn(n, <<>>)
                  [] n \in Lua_new -> Lib(n)
                  [] OTHER -> Nil],
     buf |-> <<>>]

\* ------------------------------------------------------------------- Repl
Cell(comment, code, output, final) ==
    [comment |-> comment, code |-> code, output |-> output, final |-> final]

\* Repl::eval truncating without the marker (mutant).
TruncateDecoded_NoMarker(result, decoded) ==
    IF decoded.ok THEN Some(decoded.s) ELSE Some(result)

\* Repl::eval, the truncation of an output text to MAX_OUTPUT_TOKENS tokens.
TruncateDecoded(result, decoded) ==
    IF decoded.ok THEN Some(decoded.s \o <<"\n", "[truncated]">>) ELSE Some(result)

TruncateTokens(result, tokens) ==
    IF Len(tokens) > MAX_OUTPUT_TOKENS
    THEN TruncateDecoded(result, decode(SubSeq(tokens, 1, MAX_OUTPUT_TOKENS)))
    ELSE Some(result)

\* Repl::eval storing the bare error text of a failed evaluation (mutant).
StoredOutput_NoPrefix(r) ==
    IF r.ok
    THEN IF r.out.some
         THEN TruncateTokens(r.out.s, encode_with_special_tokens(r.out.s))
         ELSE None
    ELSE Some(r.err)

\* Repl::eval storing what was printed in front of the error text (mutant).
StoredOutput_WithPrinted(r) ==
    IF r.ok
    THEN IF r.out.some
         THEN TruncateTokens(r.out.s, encode_with_special_tokens(r.out.s))
         ELSE None
    ELSE Some(r.buf \o <<"Execution error: ">> \o r.err)

\* The output Repl::eval stores for a result r of Environment::eval.
StoredOutput(r) ==
    IF r.ok
    THEN IF r.out.some
         THEN TruncateTokens(r.out.s, encode_with_special_tokens(r.out.s))
         ELSE None
    ELSE Some(<<"Execution error: ">> \o r.err)

\* Repl::eval putting the new Cell in front of the entries (mutant).
Pushed_Front(es, comment, code, r) ==
    [entries |-> <<Cell(comment, code, StoredOutput(r), FALSE)>> \o es,
     g |-> r.g, buf |-> r.buf, r |-> r]

\* Repl::eval, the push of the Cell for the evaluation's result r; a panic
\* in the evaluation unwinds through Repl::eval in front of the push.
Pushed(es, comment, code, r) ==
    [entries |-> IF r.panic THEN es
                 ELSE Append(es, Cell(comment, code, StoredOutput(r), FALSE)),
     g |-> r.g, buf |-> r.buf, r |-> r]

\* Repl::eval(comment, code) on the Repl (es, g, buf): evaluate the code in
\* the Repl's own Environment and push the Cell.
Repl_eval(es, g, buf, comment, code, llm) ==
    Pushed(es, comment, code, Environment_eval(code, g, buf, llm))

\* The atom standing for the three-backtick fence line of the markdown.
Fence == "[fence]"

\* Repl::to_markdown: the parts of one cell, joined.
JoinedCell(cell_parts) ==
    IF cell_parts # <<>> THEN << Join(cell_parts, <<"\n">>) \o <<"\n">> >> ELSE <<>>

\* Repl::to_markdown rendering an Output block for every cell (mutant).
CellMarkdown_EmptyOutputBlock(cell) ==
    JoinedCell(
        (IF cell.comment # <<>> THEN << <<"# ">> \o cell.comment >> ELSE <<>>)
        \o (IF cell.code # <<>>
            THEN << <<Fence, "\n">> \o cell.code \o <<"\n", Fence>> >> ELSE <<>>)
        \o << <<"Output:", "\n", Fence, "\n">> \o cell.output.s \o <<"\n", Fence>> >>)

CellMarkdown(cell) ==
    JoinedCell(
        (IF cell.comment # <<>> THEN << <<"# ">> \o cell.comment >> ELSE <<>>)
        \o (IF cell.code # <<>>
            THEN << <<Fence, "\n">> \o cell.code \o <<"\n", Fence>> >> ELSE <<>>)
        \o (IF cell.output.some
            THEN << <<"Output:", "\n", Fence, "\n">> \o cell.output.s \o <<"\n", Fence>> >>
            ELSE <<>>))

RECURSIVE CellsMarkdown(_)
CellsMarkdown(es) ==
    IF es = <<>> THEN <<>> ELSE CellMarkdown(Head(es)) \o CellsMarkdown(Tail(es))

to_markdown(p, es) ==
    LET parts == (IF p # <<>> THEN << <<"Prompt:", "\n">> \o p \o <<"\n">> >> ELSE <<>>)
                 \o CellsMarkdown(es)
    IN  Join(parts, <<"\n">>)

\* Repl::snapshot without the entries (mutant).
snapshot_Empty(p, es) ==
    [prompt |-> p, entries |-> <<>>, environment |-> Environment_new(<<>>, Ollama("qwen3:30b"))]

\* Repl::snapshot without the prompt (mutant).
snapshot_NoPrompt(p, es) ==
    [prompt |-> <<>>, entries |-> es, environment |-> Environment_new(<<>>, Ollama("qwen3:30b"))]

\* Repl::snapshot without the newest entry (mutant).
snapshot_Stale(p, es) ==
    [prompt |-> p, entries |-> SubSeq(es, 1, Len(es) - 1),
     environment |-> Environment_new(<<>>, Ollama("qwen3:30b"))]

\* Repl::snapshot giving the prompt to the new Environment as its context
\* (mutant).
snapshot_PromptAsContext(p, es) ==
    [prompt |-> p, entries |-> es, environment |-> Environment_new(p, Ollama("qwen3:30b"))]

\* Repl::snapshot: the prompt and a copy of the entries, on a fresh Environment.
snapshot(p, es) == [prompt |-> p, entries |-> es, environment |-> Environment_new(<<>>, Ollama("qwen3:30b"))]

\* ------------------------------------------------- Serialize, Deserialize
\* serde_json's values for Option<String>: null or a string.
JsonNull == [t |-> "null", v |-> <<>>]
JsonString(x) == [t |-> "string", v |-> x]

\* Serialize for Cell leaving the output out (mutant).
CellJson_NoOutput(cell) ==
    [comment |-> cell.comment, code |-> cell.code, output |-> JsonNull,
     final |-> cell.final]

\* Serialize for Cell (derived): the four fields.
CellJson(cell) ==
    [comment |-> cell.comment, code |-> cell.code,
     output |-> IF cell.output.some THEN JsonString(cell.output.s) ELSE JsonNull,
     final |-> cell.final]

\* Deserialize for Cell (derived).
CellOfJson(j) ==
    Cell(j.comment, j.code, IF j.output.t = "null" THEN None ELSE Some(j.output.v),
         j.final)

\* Serialize for Repl: the prompt and the entries, not the environment.
Repl_serialize(p, es) ==
    [prompt |-> p, entries |-> [k \in 1..Len(es) |-> CellJson(es[k])]]

\* Deserialize for Repl: the prompt and the entries of the document, on a new
\* Environment with the context "".
Repl_deserialize(doc) ==
    [prompt |-> doc.prompt,
     entries |-> [k \in 1..Len(doc.entries) |-> CellOfJson(doc.entries[k])],
     environment |-> Environment_new(<<>>, Ollama("qwen3:30b"))]

\* Rlm::final_output reading the first entry (mutant).
final_output_First(es) == IF es = <<>> THEN None ELSE es[1].output

\* Rlm::final_output
final_output(es) == IF es = <<>> THEN None ELSE es[Len(es)].output


\* ------------------------------------------------------------ Cell::parse
\* A raw model response: its text, and what serde_json::from_str::<Cell>
\* makes of it (ok = FALSE when the text is not a JSON document of the Cell
\* shape; an absent "output" is None and an absent "final" is false).
NoJson == [ok |-> FALSE, comment |-> <<>>, code |-> <<>>, output |-> None,
           final |-> FALSE]

Raw(text) == [text |-> text, json |-> NoJson]

JsonRaw(comment, code, output, final) ==
    [text |-> <<"{json}">>,
     json |-> [ok |-> TRUE, comment |-> comment, code |-> code, output |-> output,
               final |-> final]]

\* Index of the first occurrence of atom x in t at or after position i; 0 if none.
RECURSIVE IndexFrom(_, _, _)
IndexFrom(t, x, i) ==
    IF i > Len(t) THEN 0 ELSE IF t[i] = x THEN i ELSE IndexFrom(t, x, i + 1)

\* Index of the last occurrence of atom x in t after position i; 0 if none.
RECURSIVE LastIndexFrom(_, _, _)
LastIndexFrom(t, x, i) ==
    IF i > Len(t) THEN 0
    ELSE IF LastIndexFrom(t, x, i + 1) # 0 THEN LastIndexFrom(t, x, i + 1)
    ELSE IF t[i] = x THEN i ELSE 0

\* Regex (?s)<tag>(.*?)</tag>: the first opening tag and the first closing
\* tag after it; the capture is what lies between.
Between(text, i, j) == IF i = 0 \/ j = 0 THEN None ELSE Some(SubSeq(text, i + 1, j - 1))

\* The regex matching greedily: up to the last closing tag (mutant).
CloseAfter_Greedy(text, close, i) == IF i = 0 THEN 0 ELSE LastIndexFrom(text, close, i + 1)

CloseAfter(text, close, i) == IF i = 0 THEN 0 ELSE IndexFrom(text, close, i + 1)

CaptureFrom(text, close, i) == Between(text, i, CloseAfter(text, close, i))

Captures(text, open, close) == CaptureFrom(text, close, IndexFrom(text, open, 1))

ParseErr(msg) == [ok |-> FALSE, cell |-> Cell(<<>>, <<>>, None, FALSE), err |-> msg]
ParseOk(cell) == [ok |-> TRUE, cell |-> cell, err |-> ""]

\* The final flag of the tagged path: the trimmed, lower-cased capture is
\* "true" or "yes"; no capture is false.
IsTrue(value) == value = <<"true">> \/ value = <<"yes">>

\* The final flag compared without lower-casing (mutant).
FinalFlag_CaseSensitive(fin) == IF fin.some THEN IsTrue(Trim(fin.s)) ELSE FALSE

FinalFlag(fin) == IF fin.some THEN IsTrue(to_lowercase(Trim(fin.s))) ELSE FALSE

\* The tagged path of Cell::parse without the checks for empty regions
\* (mutant).
TaggedCell_NoValidation(comment, code, fin) ==
    IF ~comment.some THEN ParseErr("Failed to parse <comment> tag from response")
    ELSE IF ~code.some THEN ParseErr("Failed to parse <code> tag from response")
    ELSE ParseOk(Cell(Trim(comment.s), Trim(code.s), None, FinalFlag(fin)))

\* The tagged path of Cell::parse, from the three captures.
TaggedCell(comment, code, fin) ==
    IF ~comment.some THEN ParseErr("Failed to parse <comment> tag from response")
    ELSE IF ~code.some THEN ParseErr("Failed to parse <code> tag from response")
    ELSE IF Trim(comment.s) = <<>> THEN ParseErr("Comment tag is empty")
    ELSE IF Trim(code.s) = <<>> THEN ParseErr("Code tag is empty")
    ELSE ParseOk(Cell(Trim(comment.s), Trim(code.s), None, FinalFlag(fin)))

Cell_parse(raw) ==
    IF raw.json.ok
    THEN ParseOk(Cell(raw.json.comment, raw.json.code, raw.json.output, raw.json.final))
    ELSE TaggedCell(Captures(raw.text, "<comment>", "</comment>"),
                    Captures(raw.text, "<code>", "</code>"),
                    Captures(raw.text, "<final>", "</final>"))

\* ------------------------------------------------ the model's responses
Tagged(comment, code, final) ==
    <<"<comment>", "\n">> \o comment \o <<"\n", "</comment>", "\n", "\n",
      "<code>", "\n">> \o code \o <<"\n", "</code>", "\n", "\n", "<final>", "\n">>
      \o final \o <<"\n", "</final>">>

\* The raw responses the model collaborator may give in a round.
Responses ==
    { Raw(Tagged(<<"set a">>, <<"a = 'x'">>, <<"false">>)),
      Raw(Tagged(<<"answer">>, <<"print(a)">>, <<"true">>)),
      Raw(Tagged(<<"copy">>, <<"b = a", "\n", "print(a, b)">>, <<"no">>)),
      Raw(Tagged(<<"set, print, fail">>,
                 <<"a = 'y'", "\n", "print(a)", "\n", "error('boom')">>, <<"false">>)),
      Raw(Tagged(<<"bad syntax">>, <<"a = 'y'", "\n", "end">>, <<"false">>)),
      Raw(Tagged(<<"ask">>, <<"a = llm_query(context)", "\n", "print(a)">>, <<"Yes">>)),
      Raw(Tagged(<<"rebind context">>, <<"context = 'z'", "\n", "print(context)">>,
                 <<"false">>)),
      Raw(Tagged(<<"long">>, <<"print(long)">>, <<"false">>)),
      Raw(<<"<comment>", "no code", "</comment>">>),
      Raw(<<"<comment>", " ", "</comment>", "<code>", "print(a)", "</code>">>),
      JsonRaw(<<"json">>, <<"print(context)">>, Some(<<"made up">>), FALSE) }

\* The answers the provider may give to an llm_query call.
LlmAnswers ==
    { [ok |-> TRUE, s |-> <<"r">>, hosted |-> TRUE],
      [ok |-> FALSE, s |-> <<>>, hosted |-> TRUE] }

\* The bridge of llm_query on a thread that is not a worker of a multi-thread
\* runtime: no request is made.
NoRuntime == [ok |-> FALSE, s |-> <<>>, hosted |-> FALSE]

Prompts == { <<>>, <<"task">> }
Contexts == { <<>>, <<"ctx">> }


\* ------------------------------------------------------------------ state
VARIABLES
    prompt,          \* Repl.prompt
    entries,         \* Repl.entries
    globals,         \* the Lua globals of the Repl's Environment
    output_buffer,   \* Environment.output_buffer
    max_iterations,  \* the argument of Rlm::execute
    remaining,       \* RlmIterator.remaining
    caller,          \* who drives: "main", "library", or "sync" (no runtime)
    pc,              \* where the driving task is
    iteration,       \* main's iteration counter
    is_final,        \* main's is_final flag
    report,          \* what main printed when its loop ended
    pending,         \* the model request in flight (the rendered snapshot)
    last,            \* what the last RlmIterator::next returned
    lastEval,        \* the Environment::eval of the last action, if it made one
    rounds,          \* model calls made so far
    execLog,         \* the codes evaluated in the live Environment, in order
    respLog,         \* the results of the generate calls, in order
    finalYielded,    \* some next() has returned a Cell with final = true
    errYielded,      \* some next() has returned an error
    lock,            \* holder of the Mutex around the Repl shared by run_cell
    calls,           \* the run_cell calls
    parse_text,      \* the text given to a direct call of Cell::parse
    parse_result,    \* what that call returned
    held             \* a second Repl a caller holds: a snapshot or a deserialized one

replVars == <<prompt, entries, globals, output_buffer>>
toolVars == <<lock, calls>>
unitVars == <<parse_text, parse_result, held>>
vars == <<prompt, entries, globals, output_buffer, max_iterations, remaining, caller,
          pc, iteration, is_final, report, pending, last, lastEval, rounds, execLog,
          respLog, finalYielded, errYielded, lock, calls, parse_text, parse_result, held>>

NoCell == Cell(<<>>, <<>>, None, FALSE)
NoEval == [ran |-> FALSE, ok |-> FALSE, syntax |-> FALSE, reqs |-> <<>>, panic |-> FALSE]
Ran(r) ==
    [ran |-> TRUE, ok |-> r.ok, syntax |-> (~r.ok /\ r.err = <<"syntax error">>),
     reqs |-> r.reqs, panic |-> r.panic]

\* Results of step() and next().
Ok(cell) == [kind |-> "ok", cell |-> cell, err |-> ""]
Err(e) == [kind |-> "err", cell |-> NoCell, err |-> e]
EndOfSequence == [kind |-> "none", cell |-> NoCell, err |-> ""]

Callers == {"main", "library"}
CallIds == 1..NumCalls
IdleCall == [pc |-> "off", comment |-> <<>>, code |-> <<>>, ret |-> <<>>, idx |-> 0]

\* No direct call of Cell::parse has been made and no second Repl is held.
NotParsed == [ok |-> FALSE, cell |-> NoCell, err |-> "not called"]
NoHeld == [kind |-> "none", prompt |-> <<>>, entries |-> <<>>,
           g |-> Environment_new(<<>>, Ollama("qwen3:30b")).g]

NoUnitCalls ==
    /\ parse_text = Raw(<<>>)
    /\ parse_result = NotParsed
    /\ held = NoHeld

\* Repl::new(prompt, init_context, model, client)
Repl_new(p, init_context, client) ==
    /\ prompt = p
    /\ entries = <<>>
    /\ globals = Environment_new(init_context, client).g
    /\ output_buffer = Environment_new(init_context, client).buf

\* Rlm::new followed by Rlm::execute(max_iterations).
Init ==
    /\ \E p \in Prompts, c \in Contexts : Repl_new(p, c, Ollama("qwen3:30b"))
    /\ max_iterations \in 0..MaxIterations
    /\ remaining = max_iterations
    /\ caller \in Callers
    /\ pc = "call"
    /\ iteration = 0
    /\ is_final = FALSE
    /\ report = "none"
    /\ pending = None
    /\ last = [kind |-> "init", cell |-> NoCell, err |-> ""]
    /\ lastEval = NoEval
    /\ rounds = 0
    /\ execLog = <<>>
    /\ respLog = <<>>
    /\ finalYielded = FALSE
    /\ errYielded = FALSE
    /\ lock = 0
    /\ calls = [i \in CallIds |-> IdleCall]
    /\ NoUnitCalls

\* -------------------------------------------------- the callers of next()
\* main without the break on a final Cell (mutant).
main_loop_no_break(result, it, fin, maxit) ==
    CASE result.kind = "ok" ->
            [pc |-> "call", iteration |-> it + 1,
             is_final |-> (fin \/ result.cell.final), report |-> "none"]
      [] result.kind = "err" ->
            [pc |-> "failed", iteration |-> it + 1, is_final |-> fin,
             report |-> "failed"]
      [] OTHER ->
            [pc |-> "exited", iteration |-> it, is_final |-> fin,
             report |-> IF ~fin /\ it >= maxit THEN "budget" ELSE "ended"]

\* main going on to its next call after an error (mutant).
main_loop_ignores_error(result, it, fin, maxit) ==
    CASE result.kind = "ok" ->
            IF result.cell.final
            THEN [pc |-> "exited", iteration |-> it + 1, is_final |-> TRUE,
                  report |-> "completed"]
            ELSE [pc |-> "call", iteration |-> it + 1, is_final |-> fin,
                  report |-> "none"]
      [] result.kind = "err" ->
            [pc |-> "call", iteration |-> it + 1, is_final |-> fin, report |-> "none"]
      [] OTHER ->
            [pc |-> "exited", iteration |-> it, is_final |-> fin,
             report |-> IF ~fin /\ it >= maxit THEN "budget" ELSE "ended"]

\* main's loop around iter.next(): what it does with a result.
main_loop(result, it, fin, maxit) ==
    CASE result.kind = "ok" ->
            IF result.cell.final
            THEN [pc |-> "exited", iteration |-> it + 1, is_final |-> TRUE,
                  report |-> "completed"]
            ELSE [pc |-> "call", iteration |-> it + 1, is_final |-> fin,
                  report |-> "none"]
      [] result.kind = "err" ->
            [pc |-> "failed", iteration |-> it + 1, is_final |-> fin,
             report |-> "failed"]
      [] OTHER ->
            [pc |-> "exited", iteration |-> it, is_final |-> fin,
             report |-> IF ~fin /\ it >= maxit THEN "budget" ELSE "ended"]

\* A caller of the library that keeps calling next() whatever it returns
\* (RlmIterator is public and keeps no record of a final Cell or an error).
library_loop(result, it, fin, maxit) ==
    [pc |-> "call", iteration |-> it, is_final |-> fin, report |-> "none"]

\* next() returns result to its caller, which goes on as d says.
Returned(result, d) ==
    /\ last' = result
    /\ pc' = d.pc
    /\ iteration' = d.iteration
    /\ is_final' = d.is_final
    /\ report' = d.report
    /\ finalYielded' = (finalYielded \/ (result.kind = "ok" /\ result.cell.final))
    /\ errYielded' = (errYielded \/ result.kind = "err")

Return(result) ==
    Returned(result,
             IF caller = "main"
             THEN main_loop(result, iteration, is_final, max_iterations)
             ELSE library_loop(result, iteration, is_final, max_iterations))

\* ------------------------------------------------------------ Rlm::step
\* What the provider call of a round may come to: an error, or a raw text.
ProviderError == [ok |-> FALSE, raw |-> Raw(<<>>)]
Responded(raw) == [ok |-> TRUE, raw |-> raw]
Outcomes == {ProviderError} \cup { Responded(raw) : raw \in Responses }

\* RigProvider::generate after the request: the provider's error, or the
\* response parsed by Cell::parse.
generate(outcome) ==
    IF ~outcome.ok THEN [ok |-> FALSE, cell |-> NoCell, err |-> "provider error"]
    ELSE Cell_parse(outcome.raw)

\* Rlm::step returning the last entry as it is stored (mutant).
Executed_StoredFlag(e, code, is_final_flag) ==
    [entries |-> e.entries, g |-> e.g, buf |-> e.buf, ev |-> Ran(e.r),
     evaluated |-> <<code>>,
     result |-> Ok(e.entries[Len(e.entries)])]

\* Rlm::step, its end: the executed Cell is a copy of the last entry with the
\* generated final flag; e is what Repl::eval left.
Executed(e, code, is_final_flag) ==
    [entries |-> e.entries, g |-> e.g, buf |-> e.buf, ev |-> Ran(e.r),
     evaluated |-> <<code>>,
     result |-> Ok([e.entries[Len(e.entries)] EXCEPT !.final = is_final_flag])]

\* Rlm::step evaluating the Cell before it looks at the result of generate
\* (mutant).
Rlm_step_EvalFirst(gen, es, g, buf, llm) ==
    IF ~gen.ok
    THEN [entries |-> Repl_eval(es, g, buf, gen.cell.comment, gen.cell.code, llm).entries,
          g |-> g, buf |-> buf, ev |-> NoEval, evaluated |-> <<>>,
          result |-> Err(gen.err)]
    ELSE Executed(Repl_eval(es, g, buf, gen.cell.comment, gen.cell.code, llm),
                  gen.cell.code, gen.cell.final)

\* Rlm::step after the await: an error of generate is returned at once;
\* otherwise the Cell is evaluated in the live Repl (es, g, buf) and the
\* executed Cell is returned.
Rlm_step(gen, es, g, buf, llm) ==
    IF ~gen.ok
    THEN [entries |-> es, g |-> g, buf |-> buf, ev |-> NoEval, evaluated |-> <<>>,
          result |-> Err(gen.err)]
    ELSE Executed(Repl_eval(es, g, buf, gen.cell.comment, gen.cell.code, llm),
                  gen.cell.code, gen.cell.final)

\* A step that sends the request of the next round before it returns
\* (mutant).
Stepped_NextRequestEarly(x, gen, outcome) ==
    /\ entries' = x.entries
    /\ globals' = x.g
    /\ output_buffer' = x.buf
    /\ lastEval' = x.ev
    /\ execLog' = execLog \o x.evaluated
    /\ respLog' = Append(respLog, [ok |-> gen.ok, code |-> gen.cell.code,
                                   comment |-> gen.cell.comment,
                                   output |-> gen.cell.output,
                                   final |-> gen.cell.final,
                                   json |-> (outcome.ok /\ outcome.raw.json.ok)])
    /\ pending' = pending
    /\ Return(x.result)
    /\ UNCHANGED <<prompt, max_iterations, remaining, caller, rounds, toolVars, unitVars>>

\* The state after a step that came to x, for the provider's outcome and the
\* generate result gen made of it.
Stepped(x, gen, outcome) ==
    /\ entries' = x.entries
    /\ globals' = x.g
    /\ output_buffer' = x.buf
    /\ lastEval' = x.ev
    /\ execLog' = execLog \o x.evaluated
    /\ respLog' = Append(respLog, [ok |-> gen.ok, code |-> gen.cell.code,
                                   comment |-> gen.cell.comment,
                                   output |-> gen.cell.output,
                                   final |-> gen.cell.final,
                                   json |-> (outcome.ok /\ outcome.raw.json.ok)])
    /\ pending' = None
    /\ Return(x.result)
    /\ UNCHANGED <<prompt, max_iterations, remaining, caller, rounds, toolVars, unitVars>>

StepWith(gen, outcome, llm) ==
    Stepped(Rlm_step(gen, entries, globals, output_buffer, llm), gen, outcome)

\* The step resumes with the provider's outcome and returns to the caller.
Resume(outcome, llm) == StepWith(generate(outcome), outcome, llm)

\* RlmIterator::next with remaining = 0: None.
NextNone ==
    /\ pc = "call"
    /\ remaining = 0
    /\ Return(EndOfSequence)
    /\ lastEval' = NoEval
    /\ UNCHANGED <<replVars, max_iterations, remaining, caller, pending, rounds,
                   execLog, respLog, toolVars, unitVars>>

\* RlmIterator::next without the decrement of remaining (mutant).
NextBegin_NoDecrement ==
    /\ pc = "call"
    /\ remaining > 0
    /\ rounds < MaxIterations + 2
    /\ pending' = Some(to_markdown(prompt, entries))
    /\ rounds' = rounds + 1
    /\ pc' = "awaiting"
    /\ lastEval' = NoEval
    /\ UNCHANGED <<replVars, max_iterations, remaining, caller, iteration, is_final,
                   report, last, execLog, respLog, finalYielded, errYielded, toolVars, unitVars>>

\* RlmIterator::next with remaining > 0, up to the await in Rlm::step: count
\* the round, take the snapshot, send its rendering to the model.
NextBegin ==
    /\ pc = "call"
    /\ remaining > 0
    /\ remaining' = remaining - 1
    /\ LET repl_snapshot == snapshot(prompt, entries)
       IN  pending' = Some(to_markdown(repl_snapshot.prompt, repl_snapshot.entries))
    /\ rounds' = rounds + 1
    /\ pc' = "awaiting"
    /\ lastEval' = NoEval
    /\ UNCHANGED <<replVars, max_iterations, caller, iteration, is_final, report,
                   last, execLog, respLog, finalYielded, errYielded, toolVars, unitVars>>

\* The provider fails: step returns the error.
GenerateProviderError ==
    /\ pc = "awaiting"
    /\ \E llm \in LlmAnswers : Resume(ProviderError, llm)

\* The model's response is one Cell::parse rejects: step returns the error.
GenerateParseError ==
    /\ pc = "awaiting"
    /\ \E raw \in Responses, llm \in LlmAnswers :
        /\ ~Cell_parse(raw).ok
        /\ Resume(Responded(raw), llm)

\* The model's response parses into a Cell: step evaluates it and returns the
\* executed Cell.
StepExecute ==
    /\ pc = "awaiting"
    /\ \E raw \in Responses, llm \in LlmAnswers :
        /\ Cell_parse(raw).ok
        /\ Resume(Responded(raw), llm)

Next ==
    \/ NextNone
    \/ NextBegin
    \/ GenerateProviderError
    \/ GenerateParseError
    \/ StepExecute

Spec == Init /\ [][Next]_vars

\* ------------------------------------------------ RunCellTool (run_cell)
\* Arguments the model passes to run_cell.
ToolComments == {<<"probe">>}
ToolCodes == {<<"a = 'x'">>, <<"print(a)">>, <<"print(context)">>,
              <<"a = 'y'", "\n", "print(a)">>, <<"error('boom')">>}

\* Option::unwrap_or_default on the output of a Cell.
unwrap_or_default(o) == IF o.some THEN o.s ELSE <<>>

\* RunCellTool::new on a fresh Repl shared by the calls; no Rlm runs.
InitRunCell ==
    /\ \E p \in Prompts, c \in Contexts : Repl_new(p, c, Ollama("qwen3:30b"))
    /\ max_iterations = 0
    /\ remaining = 0
    /\ caller = "library"
    /\ pc = "off"
    /\ iteration = 0
    /\ is_final = FALSE
    /\ report = "none"
    /\ pending = None
    /\ last = [kind |-> "init", cell |-> NoCell, err |-> ""]
    /\ lastEval = NoEval
    /\ rounds = 0
    /\ execLog = <<>>
    /\ respLog = <<>>
    /\ finalYielded = FALSE
    /\ errYielded = FALSE
    /\ lock = 0
    /\ calls = [i \in CallIds |-> IdleCall]
    /\ NoUnitCalls

rlmVars == <<prompt, max_iterations, remaining, caller, pc, iteration, is_final, report,
             pending, last, rounds, respLog, finalYielded, errYielded>>

\* The agent invokes call(args).
Call_Start(i) ==
    /\ calls[i].pc = "off"
    /\ \E comment \in ToolComments, code \in ToolCodes :
        calls' = [calls EXCEPT ![i] = [pc |-> "locking", comment |-> comment,
                                       code |-> code, ret |-> <<>>, idx |-> 0]]
    /\ UNCHANGED <<replVars, rlmVars, unitVars, lastEval, execLog, lock>>

\* self.repl.lock() taking the Mutex without waiting for it (mutant).
Call_Lock_NoWait(i) ==
    /\ calls[i].pc = "locking"
    /\ lock' = i
    /\ calls' = [calls EXCEPT ![i].pc = "locked"]
    /\ UNCHANGED <<replVars, rlmVars, unitVars, lastEval, execLog>>

\* self.repl.lock().unwrap(): waits until the Mutex is free, then holds it.
Call_Lock(i) ==
    /\ calls[i].pc = "locking"
    /\ lock = 0
    /\ lock' = i
    /\ calls' = [calls EXCEPT ![i].pc = "locked"]
    /\ UNCHANGED <<replVars, rlmVars, unitVars, lastEval, execLog>>

\* The Repl after call i's repl.eval(&args.comment, &args.code).
Called(i, x) ==
    /\ entries' = x.entries
    /\ globals' = x.g
    /\ output_buffer' = x.buf
    /\ lastEval' = Ran(x.r)
    /\ execLog' = Append(execLog, calls[i].code)
    /\ calls' = [calls EXCEPT ![i].pc = "evaluated", ![i].idx = Len(x.entries)]

\* repl.eval(&args.comment, &args.code)
Call_Eval(i) ==
    /\ calls[i].pc = "locked"
    /\ \E llm \in LlmAnswers :
        Called(i, Repl_eval(entries, globals, output_buffer,
                            calls[i].comment, calls[i].code, llm))
    /\ UNCHANGED <<prompt, max_iterations, remaining, caller, pc, iteration, is_final,
                   report, pending, last, rounds, respLog, finalYielded, errYielded, lock,
                   unitVars>>

\* The output of repl.entries.last() is returned and the guard is dropped.
Call_Return(i) ==
    /\ calls[i].pc = "evaluated"
    /\ calls' = [calls EXCEPT ![i].pc = "done",
                              ![i].ret = IF entries = <<>> THEN <<>>
                                         ELSE unwrap_or_default(entries[Len(entries)].output)]
    /\ lock' = IF lock = i THEN 0 ELSE lock
    /\ UNCHANGED <<replVars, rlmVars, unitVars, lastEval, execLog>>

NextRunCell ==
    \E i \in CallIds :
        \/ Call_Start(i)
        \/ Call_Lock(i)
        \/ Call_Eval(i)
        \/ Call_Return(i)

SpecRunCell == InitRunCell /\ [][NextRunCell]_vars

\* --------------------------------------------- direct calls of Repl::eval
\* The codes a direct caller (a unit test, a tool) evaluates.
EvalCodes ==
    { <<"a = 'x'">>, <<"a = ''">>, <<"b = a">>,
      <<"print(a)">>, <<"print(a, b)">>, <<"print(a, b, context)">>,
      <<"print('')">>,
      <<"print('')", "\n", "print(a)">>,
      <<"print(a)", "\n", "print('')">>,
      <<"print('')", "\n", "print('')">>,
      <<"print(a)", "\n", "print(a, b)", "\n", "print(context)">>,
      <<"print(full)">>, <<"print(long)">>, <<"print(wide)">>, <<"print(longer)">>,
      <<"error(long)">>, <<"error('boom')">>,
      <<"a = 'xE'">>, <<"a = llm_query('q')">>, <<"a = llm_query(context)">>,
      <<"a = llm_query(b)">>,
      <<"print(a)", "\n", "a = llm_query('q')", "\n", "print(a)">>,
      <<"b = token_trunc(a, 0)">>, <<"b = token_trunc(a, 1)">>,
      <<"b = token_trunc(a, 2)">>, <<"b = token_trunc(a, 3)">>,
      <<"b = token_trunc(a, 1000)">>,
      <<"print('old')", "\n", "error('boom')">>, <<"print = nil">> }

\* The callers of Repl::eval outside the Rlm: a task of a multi-thread
\* runtime ("library") and a thread that is not one ("sync").
DirectCallers == {"library", "sync"}

\* What llm_query finds on the thread of the caller c.
Bridges(c) == IF c = "sync" THEN {NoRuntime} ELSE LlmAnswers

\* Repl::new by the caller c with one of the clients; no Rlm runs and no
\* run_cell call is made.
InitDirect(c, clients) ==
    /\ \E p \in Prompts, ctx \in Contexts, client \in clients : Repl_new(p, ctx, client)
    /\ max_iterations = 0
    /\ remaining = 0
    /\ caller = c
    /\ pc = "off"
    /\ iteration = 0
    /\ is_final = FALSE
    /\ report = "none"
    /\ pending = None
    /\ last = [kind |-> "init", cell |-> NoCell, err |-> ""]
    /\ lastEval = NoEval
    /\ rounds = 0
    /\ execLog = <<>>
    /\ respLog = <<>>
    /\ finalYielded = FALSE
    /\ errYielded = FALSE
    /\ lock = 0
    /\ calls = [i \in CallIds |-> IdleCall]
    /\ NoUnitCalls

InitEval == \E c \in DirectCallers : InitDirect(c, {Ollama("qwen3:30b")})

\* The Repl after repl.eval(comment, code) came to x.
Evaled(code, x) ==
    /\ entries' = x.entries
    /\ globals' = x.g
    /\ output_buffer' = x.buf
    /\ lastEval' = Ran(x.r)
    /\ execLog' = Append(execLog, code)

\* repl.eval(comment, code); a caller whose call panicked is gone.
EvalCode ==
    /\ Len(entries) < MaxEvals
    /\ ~lastEval.panic
    /\ \E code \in EvalCodes, llm \in Bridges(caller) :
        Evaled(code, Repl_eval(entries, globals, output_buffer, <<"unit">>, code, llm))
    /\ UNCHANGED <<rlmVars, toolVars, unitVars>>

NextEval == EvalCode

SpecEval == InitEval /\ [][NextEval]_vars

\* --------------------------------------------- direct calls of Cell::parse
\* The texts a direct caller gives to Cell::parse: chatter, then a comment
\* region, a code region and a final region, each present, absent or
\* malformed; and JSON documents of the Cell shape.
Chatter == { <<>>, <<"Sure.", "\n">> }

CommentRegions ==
    { <<>>,
      <<"<comment>", " ", "\n", "</comment>">>,
      <<"<comment>", "\n", "why", " ", "so", "\t", "</comment>">>,
      <<"<comment>", "first", "</comment>", "<comment>", "second", "</comment>">>,
      <<"<comment>", "never closed">> }

CodeRegions ==
    { <<>>,
      <<"<code>", "\n", "</code>">>,
      <<"<code>", "\n", "a = 'x'", "\n", "print(a)", "\n", " ", "</code>">>,
      <<"<code>", "print(a)", "</code>", "<code>", "error('boom')", "</code>">>,
      <<"</code>", "print(a)", "<code>">> }

FinalRegions ==
    { <<>>,
      <<"<final>", "true", "</final>">>,
      <<"<final>", " ", "Yes", "\n", "</final>">>,
      <<"<final>", "no", "</final>">>,
      <<"<final>", "</final>">>,
      <<"<final>", "true">> }

TaggedInputs ==
    { Raw(pre \o c \o <<"\n">> \o k \o <<"\n">> \o f) :
        pre \in Chatter, c \in CommentRegions, k \in CodeRegions, f \in FinalRegions }

JsonDocs ==
    { JsonRaw(c, k, o, f) :
        c \in { <<"json">>, <<>> }, k \in { <<"print(context)">>, <<>> },
        o \in { None, Some(<<"made up">>), Some(<<>>) }, f \in BOOLEAN }

ParseInputs == TaggedInputs \cup JsonDocs

\* No Repl is needed for Cell::parse; the state is that of a new one.
InitParse == InitDirect("library", {Ollama("qwen3:30b")})

\* Cell::parse(text)
ParseText ==
    /\ parse_result = NotParsed
    /\ \E raw \in ParseInputs :
        /\ parse_text' = raw
        /\ parse_result' = Cell_parse(raw)
    /\ UNCHANGED <<replVars, rlmVars, toolVars, lastEval, execLog, held>>

NextParse == ParseText

SpecParse == InitParse /\ [][NextParse]_vars

\* --------------------------------------- snapshots and serialized copies
\* A second Repl made from r by snapshot or by deserialization.
Held(kind, r) ==
    [kind |-> kind, prompt |-> r.prompt, entries |-> r.entries, g |-> r.environment.g]

InitCopy == InitDirect("library", Clients)

\* repl.eval(comment, code) on the live Repl.
CopyEval ==
    /\ Len(entries) < MaxEvals
    /\ \E code \in ToolCodes, llm \in LlmAnswers :
        Evaled(code, Repl_eval(entries, globals, output_buffer, <<"unit">>, code, llm))
    /\ UNCHANGED <<rlmVars, toolVars, unitVars>>

\* let s = repl.snapshot()
TakeSnapshot ==
    /\ held = NoHeld
    /\ held' = Held("snapshot", snapshot(prompt, entries))
    /\ UNCHANGED <<replVars, rlmVars, toolVars, lastEval, execLog, parse_text,
                   parse_result>>

\* let r: Repl = serde_json::from_str(&serde_json::to_string(&repl))
RoundTrip ==
    /\ held = NoHeld
    /\ held' = Held("restored", Repl_deserialize(Repl_serialize(prompt, entries)))
    /\ UNCHANGED <<replVars, rlmVars, toolVars, lastEval, execLog, parse_text,
                   parse_result>>

NextCopy ==
    \/ CopyEval
    \/ TakeSnapshot
    \/ RoundTrip

SpecCopy == InitCopy /\ [][NextCopy]_vars

\* ================================================================ claims
\* Some step evaluated code in the live Environment.
Evaluated == execLog' # execLog

\* The rounds so far all returned a Cell with final = false.
NoFinalNoError == ~finalYielded /\ ~errYielded

\* --------------------------------------------------------------------- C1
\* C1 as claimed: once a round has yielded a Cell with final = true, no later
\* next() makes a model call or evaluates code.
C1_StopsAfterFinal ==
    [][finalYielded => (rounds' = rounds /\ execLog' = execLog /\ entries' = entries)]_vars

\* C1 amended: RlmIterator::next looks at the remaining budget only; it is
\* main's loop that stops.  Under main, once a round has yielded a final
\* Cell the loop has exited as completed, that Cell is the last entry's
\* evaluation, and no step of the program is possible any more.
C1_MainStopsAfterFinal ==
    (caller = "main" /\ finalYielded) =>
        /\ pc = "exited"
        /\ report = "completed"
        /\ is_final
        /\ last.kind = "ok" /\ last.cell.final
        /\ rounds = Len(entries)
        /\ rounds + remaining = max_iterations
        /\ ~ENABLED Next

\* main has stopped on a final Cell with budget left.
C1_Witness == caller = "main" /\ finalYielded /\ remaining > 0 /\ pc = "exited"


\* --------------------------------------------------------------------- C2
\* C2, the states: while every round so far returned a Cell with final =
\* false, the rounds started and the budget left add up to max_iterations and
\* each finished round left one entry; when next() then reports the end, N
\* model calls were made and N Cells appended; main reports budget-exhausted.
C2_BudgetStates ==
    NoFinalNoError =>
        /\ rounds + remaining = max_iterations
        /\ Len(entries) = (IF pc = "awaiting" THEN rounds - 1 ELSE rounds)
        /\ Len(respLog) = Len(entries)
        /\ last.kind = "none" =>
              (rounds = max_iterations /\ Len(entries) = max_iterations /\ remaining = 0)
        /\ (caller = "main" /\ pc = "exited") =>
              (report = "budget" /\ last.kind = "none" /\ ~is_final
               /\ iteration = max_iterations)

\* C2, the steps: once next() has reported the end of the sequence, every
\* further call reports it again, calls no model and evaluates nothing.
C2_EndStays ==
    (last.kind = "none") =>
        (last'.kind = "none" /\ rounds' = rounds /\ execLog' = execLog
         /\ entries' = entries)

\* C2: with every generated Cell non-final and no failing round, exactly N
\* rounds run, then the sequence stays ended, and the run is reported as
\* budget-exhausted.
C2_ExactlyNRounds == []C2_BudgetStates /\ [][C2_EndStays]_vars

\* main has used its whole budget, the largest of the model, without a final Cell.
C2_Witness ==
    /\ caller = "main" /\ NoFinalNoError /\ pc = "exited" /\ report = "budget"
    /\ max_iterations = MaxIterations /\ Len(entries) = MaxIterations

\* --------------------------------------------------------------------- C3
\* The last entry after a step, and whether the step added exactly it.
LastEntry(es) == es[Len(es)]
AppendedOne == Len(entries') = Len(entries) + 1 /\ SubSeq(entries', 1, Len(entries)) = entries

\* C3: a step whose evaluation fails appends exactly one Cell whose output is
\* present and starts with "Execution error: "; step() returns Ok with that
\* Cell; the caller is not stopped by it (main goes on to its next call
\* unless the Cell was final).
C3_ExecErrorIsOutput ==
    [][(lastEval'.ran /\ ~lastEval'.ok) =>
          /\ AppendedOne
          /\ LastEntry(entries').output.some
          /\ IsPrefix(<<"Execution error: ">>, LastEntry(entries').output.s)
          /\ Len(LastEntry(entries').output.s) > 1
          /\ last'.kind = "ok"
          /\ last'.cell.output = LastEntry(entries').output
          /\ last'.cell.code = LastEntry(entries').code
          /\ last'.cell.comment = LastEntry(entries').comment
          /\ pc' # "failed"
          /\ errYielded' = errYielded
          /\ (~last'.cell.final => pc' = "call")]_vars

\* A failed ask-model call is the stored output of a Cell, and a later round
\* has run after it.
C3_Witness ==
    /\ Len(entries) >= 2
    /\ entries[1].output = Some(<<"Execution error: ", "runtime error: LLM query failed">>)
    /\ lastEval.ran

\* --------------------------------------------------------------------- C4
\* The step just taken was a round whose generation failed.
GenerationFailed == Len(respLog') = Len(respLog) + 1 /\ ~respLog'[Len(respLog')].ok

\* C4: when the generation of a round fails, step() returns an error and the
\* live Repl is as before: same entries, same globals and buffer, nothing
\* evaluated.
C4_FailedGenerationLeavesLedger ==
    [][GenerationFailed =>
          /\ last'.kind = "err"
          /\ last'.err # ""
          /\ entries' = entries
          /\ prompt' = prompt
          /\ globals' = globals
          /\ output_buffer' = output_buffer
          /\ execLog' = execLog
          /\ ~lastEval'.ran]_vars

\* A round failed on the response without a code region, after a Cell had
\* been stored.
C4_Witness ==
    /\ last.kind = "err"
    /\ last.err = "Failed to parse <code> tag from response"
    /\ Len(entries) = 1

\* --------------------------------------------------------------------- C5
\* C5 as claimed: after a round has returned an error no later model call is
\* made, no code is evaluated and no Cell is appended.
C5_StopsAfterError ==
    [][errYielded => (rounds' = rounds /\ execLog' = execLog /\ entries' = entries)]_vars

\* C5 amended: RlmIterator::next keeps no record of the error; it is main
\* that returns on it.  Under main, once a round has returned an error main
\* has failed with it, the failed round left no entry, and no step of the
\* program is possible any more, whatever budget is left.
C5_MainStopsAfterError ==
    (caller = "main" /\ errYielded) =>
        /\ pc = "failed"
        /\ report = "failed"
        /\ last.kind = "err"
        /\ Len(entries) = rounds - 1
        /\ iteration = rounds
        /\ ~ENABLED Next

\* main has failed on an error with budget left.
C5_Witness == caller = "main" /\ errYielded /\ remaining > 0 /\ pc = "failed"


\* --------------------------------------------------------------------- C6
\* The generate results that were Cells, in order.
IsOk(x) == x.ok
Generated == SelectSeq(respLog, IsOk)

\* C6, the states: entry k holds the k-th code evaluated and the code of the
\* k-th Cell the model generated; under main, of the k-th response outright.
C6_Order ==
    /\ Len(execLog) = Len(entries)
    /\ Len(Generated) = Len(entries)
    /\ \A k \in 1..Len(entries) :
          /\ entries[k].code = execLog[k]
          /\ entries[k].code = Generated[k].code
          /\ caller = "main" => (respLog[k].ok /\ respLog[k].code = entries[k].code)
    /\ snapshot(prompt, entries).entries = entries

\* C6, the steps: the entries before a step are a prefix of the entries
\* after it, and one Cell is added at the end exactly when code was evaluated.
C6_Step ==
    /\ IsPrefix(entries, entries')
    /\ Len(entries') <= Len(entries) + 1
    /\ Evaluated <=> Len(entries') = Len(entries) + 1
    /\ Evaluated => Len(execLog') = Len(execLog) + 1

\* C6: the entries are append-only and in execution and response order.
C6_AppendOnly == []C6_Order /\ [][C6_Step]_vars

\* Three Cells with three different codes are stored.
C6_Witness ==
    /\ Len(entries) = 3
    /\ entries[1].code # entries[2].code
    /\ entries[2].code # entries[3].code
    /\ entries[1].code # entries[3].code

\* --------------------------------------------------------------------- C7
\* The code has a statement that binds the global n.
Writes(code, n) ==
    \E i \in 1..Len(Statements(code)) :
        /\ StmtOf(Statements(code)[i]).op \in {"set", "llm"}
        /\ StmtOf(Statements(code)[i]).name = n

\* What print(v) alone leaves as the output of an evaluation.
Printed(v) == IF to_string(v) = <<>> THEN None ELSE Some(to_string(v))

\* C7: a global changes only in an evaluation whose code binds it, and an
\* evaluation that reads a global (print(a), print(context)) gets the value
\* the earlier evaluations left.
C7_GlobalsPersist ==
    [][/\ \A n \in GlobalNames :
            globals'[n] # globals[n] =>
                (lastEval'.ran /\ Writes(LastEntry(execLog'), n))
       /\ (Evaluated /\ LastEntry(execLog') = <<"print(a)">>) =>
            last'.cell.output = Printed(globals["a"])
       /\ (Evaluated /\ LastEntry(execLog') = <<"print(context)">>) =>
            last'.cell.output = Printed(globals["context"])]_vars

\* context was rebound in the first evaluation and read in the third.
C7_Witness ==
    /\ Len(execLog) = 3
    /\ execLog[1] = <<"context = 'z'", "\n", "print(context)">>
    /\ execLog[2] = <<"a = 'x'">>
    /\ execLog[3] = <<"print(context)">>
    /\ last.kind = "ok" /\ last.cell.output = Some(<<"z">>)
    /\ globals["a"] = Str(<<"x">>)

\* --------------------------------------------------------------------- C8
\* Code that compiles and has no failing statement.
ValidCode(code) ==
    /\ Compiles(code)
    /\ \A i \in 1..Len(Statements(code)) :
          StmtOf(Statements(code)[i]).op \in {"set", "print"}

\* C8 as claimed: after a failed evaluation the globals equal the globals
\* before it.
C8_FailedEvalRollsBack ==
    [][(lastEval'.ran /\ ~lastEval'.ok) => globals' = globals]_vars

\* C8 amended: a call that fails to compile leaves the globals as they were;
\* a call that fails at run time keeps the bindings its statements made
\* before the failure (only globals its code binds can differ); after either,
\* an evaluation of valid code succeeds.
C8_FailedEvalKeepsPartialEffects ==
    [][/\ (lastEval'.ran /\ ~lastEval'.ok) =>
            /\ lastEval'.syntax => globals' = globals
            /\ \A n \in GlobalNames :
                  globals'[n] # globals[n] => Writes(LastEntry(execLog'), n)
            /\ LastEntry(execLog') = <<"a = 'y'", "\n", "print(a)", "\n", "error('boom')">>
                  => globals'["a"] = Str(<<"y">>)
       /\ (Evaluated /\ ValidCode(LastEntry(execLog'))) => lastEval'.ok]_vars

\* A call that failed at run time has left its rebinding of a behind, and a
\* later call succeeded.
C8_Witness ==
    /\ Len(execLog) = 3
    /\ execLog[1] = <<"a = 'x'">>
    /\ execLog[2] = <<"a = 'y'", "\n", "print(a)", "\n", "error('boom')">>
    /\ execLog[3] = <<"print(a)">>
    /\ lastEval.ran /\ lastEval.ok
    /\ last.cell.output = Some(<<"y">>)

\* --------------------------------------------------------------------- C9
\* C9, the states: while a round waits for the model, its request is the
\* rendering of the entries as they are, one per earlier round that returned
\* a Cell (all n-1 of them when no earlier round failed), each evaluated;
\* no request is out otherwise.
C9_Input ==
    /\ pc = "awaiting" =>
          /\ pending = Some(to_markdown(prompt, entries))
          /\ Len(respLog) = rounds - 1
          /\ Len(entries) = Len(Generated)
          /\ Len(execLog) = Len(entries)
          /\ ~errYielded => Len(entries) = rounds - 1
    /\ pc # "awaiting" => (pending = None /\ Len(respLog) = rounds)

\* C9, the steps: a round starts only when every earlier round has returned,
\* and a waiting round's request and the entries do not change until the
\* model answers.
C9_Start ==
    /\ rounds' = rounds + 1 =>
          (pc = "call" /\ pending = None /\ Len(respLog) = rounds /\ entries' = entries)
    /\ Evaluated => (pc = "awaiting" /\ pc' # "awaiting")

\* C9: rounds are strictly sequential and the model input of a round is the
\* rendering of the Cells of the earlier rounds.
C9_RoundsSequential == []C9_Input /\ [][C9_Start]_vars

\* The third round waits for the model with two evaluated Cells rendered.
C9_Witness ==
    /\ pc = "awaiting" /\ rounds = 3 /\ Len(entries) = 2
    /\ entries[2].output.some
    /\ pending = Some(to_markdown(prompt, entries))


\* -------------------------------------------------------------------- C10
\* The calls that hold the Repl.
Holding == {i \in CallIds : calls[i].pc \in {"locked", "evaluated"}}
\* The calls that have evaluated their code.
Appended == {i \in CallIds : calls[i].pc \in {"evaluated", "done"}}

\* C10, the states: at most one run_cell call holds the Repl at a time, every
\* call that evaluated has its own Cell, with its comment and code, among
\* the entries, and a call that returned has returned the output of that
\* Cell, the empty text when it has none.
C10_OneAtATime ==
    /\ Cardinality(Holding) <= 1
    /\ Holding = IF lock = 0 THEN {} ELSE {lock}
    /\ Len(entries) = Cardinality(Appended)
    /\ \A i \in Appended :
          /\ calls[i].idx \in 1..Len(entries)
          /\ entries[calls[i].idx].comment = calls[i].comment
          /\ entries[calls[i].idx].code = calls[i].code
          /\ \A j \in Appended : calls[j].idx = calls[i].idx => j = i
    /\ \A i \in CallIds :
          calls[i].pc = "done" =>
              calls[i].ret = unwrap_or_default(entries[calls[i].idx].output)

\* C10, the steps: an evaluation of a call appends one Cell, and nothing else
\* in a call changes the entries.
C10_AppendsOne ==
    /\ IsPrefix(entries, entries')
    /\ Len(entries') =
          Len(entries) + Cardinality({i \in CallIds : calls[i].pc = "locked"
                                                      /\ calls'[i].pc = "evaluated"})

\* C10: run_cell calls on one Repl never overlap, each appends one Cell and
\* returns the output of its own Cell.
C10_RunCellSerialized == []C10_OneAtATime /\ [][C10_AppendsOne]_vars

\* Two calls have returned, one the output of its Cell and one the empty
\* text for a Cell without output, after the second had waited for the first.
C10_Witness ==
    /\ calls[1].pc = "done" /\ calls[2].pc = "done"
    /\ calls[1].idx = 2 /\ calls[2].idx = 1
    /\ entries[1].output = None /\ calls[2].ret = <<>>
    /\ entries[2].output = Some(<<"x">>) /\ calls[1].ret = <<"x">>


\* -------------------------------------------------------------------- C11
\* C11 as claimed: after a step that evaluated, the Cell stored last has
\* the final flag of the Cell the model generated in that round.
C11_StoredFinalIsGenerated ==
    [][Evaluated => LastEntry(entries').final = LastEntry(respLog').final]_vars

\* -------------------------------------------------------------------- C12
\* C12: the Cell a successful step returns has the generated comment and
\* code, the output of the Cell just stored, and the generated final flag.
C12_ReturnedCell ==
    [][Evaluated =>
        /\ last'.kind = "ok"
        /\ LastEntry(respLog').ok
        /\ last'.cell.comment = LastEntry(respLog').comment
        /\ last'.cell.code = LastEntry(respLog').code
        /\ last'.cell.output = LastEntry(entries').output
        /\ last'.cell.final = LastEntry(respLog').final]_vars

\* A step has returned a final Cell with output; the stored Cell is not final.
C12_Witness ==
    /\ last.kind = "ok" /\ last.cell.final /\ last.cell.output = Some(<<"x">>)
    /\ LastEntry(respLog).final /\ LastEntry(entries).output = Some(<<"x">>)
    /\ ~LastEntry(entries).final

\* -------------------------------------------------------------------- C13
\* C13: final_output() is None without entries, is the output of the last
\* entry otherwise, is the output of the Cell the last successful step
\* returned, and after a run main ended on a final Cell it is that Cell's
\* output.
C13_FinalOutput ==
    /\ entries = <<>> => final_output(entries) = None
    /\ entries # <<>> => final_output(entries) = LastEntry(entries).output
    /\ last.kind = "ok" => final_output(entries) = last.cell.output
    /\ (caller = "main" /\ report = "completed") =>
          (last.cell.final /\ final_output(entries) = last.cell.output)

\* main ended after two rounds: the first set a, the second printed it and
\* was final.
C13_Witness ==
    /\ caller = "main" /\ report = "completed" /\ rounds = 2 /\ Len(entries) = 2
    /\ entries[1].output = None
    /\ final_output(entries) = Some(<<"x">>)
    /\ last.cell.output = Some(<<"x">>)


\* ------------------------------------------------- outputs of evaluations
\* The code of the evaluation a step made and the output stored for it.
EvaluatedCode == LastEntry(execLog')
Stored == LastEntry(entries').output

\* The truncation marker Repl::eval appends, with its newline.
Marker == <<"\n", "[truncated]">>

\* The length in bytes of a text: every atom is one byte, but for these.
Count(t, a) == Cardinality({i \in 1..Len(t) : t[i] = a})
TextLength(t) ==
    Len(t) + 10 * Count(t, "[truncated]") + 2 * Count(t, "nil") + 2 * Count(t, "ctx")
           + Count(t, "E")

EndsWithMarker(t) ==
    Len(t) >= Len(Marker) /\ SubSeq(t, Len(t) - Len(Marker) + 1, Len(t)) = Marker

\* -------------------------------------------------------------------- C14
\* C14: an evaluation that succeeds stores no output when its buffer ends
\* empty and a non-empty text otherwise, never the empty text; an output
\* within the budget is stored as the buffer holds it.
C14_NoneOrNonEmpty ==
    [][(Evaluated /\ lastEval'.ok) =>
        /\ Stored # Some(<<>>)
        /\ output_buffer' = <<>> => Stored = None
        /\ output_buffer' # <<>> => (Stored.some /\ Stored.s # <<>>)
        /\ (output_buffer' # <<>>
            /\ Len(encode_with_special_tokens(output_buffer')) <= MAX_OUTPUT_TOKENS)
              => Stored = Some(output_buffer')]_vars

\* Two prints of the empty text gave no output; a print of nil gave "nil".
C14_Witness ==
    /\ Len(entries) = 2
    /\ entries[1].code = <<"print('')", "\n", "print('')">> /\ entries[1].output = None
    /\ entries[2].code = <<"print(a)">> /\ entries[2].output = Some(<<"nil">>)

\* -------------------------------------------------------------------- C15
\* The code is print calls only.
PrintsOnly(code) ==
    \A i \in 1..Len(Statements(code)) : StmtOf(Statements(code)[i]).op = "print"

\* The line of one print call st under the globals g.
PrintLine(st, g) ==
    Join([i \in 1..Len(st.args) |-> to_string(EvalExpr(st.args[i], g))], <<"\t">>)

\* The lines of the print calls of the code, in call order.
PrintLines(code, g) ==
    [i \in 1..Len(Statements(code)) |-> PrintLine(StmtOf(Statements(code)[i]), g)]

\* C15 as claimed: the text of an evaluation of k print calls, one line at
\* least not empty, is the k lines joined by k-1 newlines in call order.
C15_PrintsNewlineJoined ==
    [][(/\ Evaluated /\ lastEval'.ok /\ PrintsOnly(EvaluatedCode)
        /\ \E i \in 1..Len(PrintLines(EvaluatedCode, globals)) :
              PrintLines(EvaluatedCode, globals)[i] # <<>>)
       => output_buffer' = Join(PrintLines(EvaluatedCode, globals), <<"\n">>)]_vars

\* -------------------------------------------------------------------- C16
\* C16: one call of the registered print contributes the string forms of its
\* arguments in argument order with one tab between neighbours.
C16_TabJoined ==
    [][(Evaluated /\ globals["print"].t = "function") =>
        /\ EvaluatedCode = <<"print(a)">> => output_buffer' = to_string(globals["a"])
        /\ EvaluatedCode = <<"print(a, b)">> =>
              output_buffer' = to_string(globals["a"]) \o <<"\t">> \o to_string(globals["b"])
        /\ EvaluatedCode = <<"print(a, b, context)">> =>
              output_buffer' = to_string(globals["a"]) \o <<"\t">>
                               \o to_string(globals["b"]) \o <<"\t">>
                               \o to_string(globals["context"])]_vars

\* A print of a string, nil and another string.
C16_Witness ==
    /\ Len(execLog) = 2
    /\ execLog[2] = <<"print(a, b, context)">>
    /\ output_buffer = <<"x", "\t", "nil", "\t", "ctx">>
    /\ entries[2].output = Some(<<"x", "\t", "nil", "\t", "ctx">>)

\* -------------------------------------------------------------------- C17
\* What C17 says is stored for the output text o.
FirstTokens(o) == SubSeq(encode_with_special_tokens(o), 1, MAX_OUTPUT_TOKENS)

ClaimedStored(o) ==
    IF Len(encode_with_special_tokens(o)) > MAX_OUTPUT_TOKENS
    THEN Some(decode(FirstTokens(o)).s \o Marker)
    ELSE Some(o)

\* C17 as claimed: an output of more than 200 tokens is stored as the
\* decoding of its first 200 tokens with the marker, any other unchanged.
C17_TruncatedAt200 ==
    [][(Evaluated /\ lastEval'.ok /\ output_buffer' # <<>>)
       => Stored = ClaimedStored(output_buffer')]_vars

\* -------------------------------------------------------------------- C18
\* The evaluation's output is over the budget.
OverBudget == Len(encode_with_special_tokens(output_buffer')) > MAX_OUTPUT_TOKENS

C19_OutputsBounded ==
    \A k \in 1..Len(entries) :
        entries[k].output.some =>
            Len(encode_with_special_tokens(entries[k].output.s))
                <= MAX_OUTPUT_TOKENS + Len(encode_with_special_tokens(Marker))


\* -------------------------------------------------------------------- C20
\* C20 as claimed: a response that is a JSON document of the Cell shape
\* parses, and the parsed Cell has no output whatever the document supplied.
C20_JsonOutputForcedNone ==
    \A k \in 1..Len(respLog) :
        respLog[k].json => (respLog[k].ok /\ respLog[k].output = None)


\* ------------------------------------------------- regions of a response
\* The first opening tag of a text, and the first closing tag after it.
Least(S) == CHOOSE i \in S : \A j \in S : i <= j
Places(text, tag) == {i \in 1..Len(text) : text[i] = tag}

RegionStart(text, open) ==
    IF Places(text, open) = {} THEN 0 ELSE Least(Places(text, open))

RegionEnd(text, open, close) ==
    IF RegionStart(text, open) = 0
       \/ {j \in Places(text, close) : j > RegionStart(text, open)} = {}
    THEN 0
    ELSE Least({j \in Places(text, close) : j > RegionStart(text, open)})

HasRegion(text, open, close) == RegionEnd(text, open, close) # 0

RegionContent(text, open, close) ==
    SubSeq(text, RegionStart(text, open) + 1, RegionEnd(text, open, close) - 1)

Blank(t) == \A i \in 1..Len(t) : t[i] \in Whitespace

\* t is c without the whitespace at its two ends.
IsTrimOf(t, c) ==
    \E i, j \in 1..Len(c) :
        /\ i <= j /\ c[i] \notin Whitespace /\ c[j] \notin Whitespace
        /\ \A k \in 1..Len(c) : (k < i \/ k > j) => c[k] \in Whitespace
        /\ t = SubSeq(c, i, j)

\* The region is absent, or empty after trimming.
BadRegion(text, open, close) ==
    ~HasRegion(text, open, close) \/ Blank(RegionContent(text, open, close))

Parsed == parse_result # NotParsed
Structured == parse_text.json.ok

\* -------------------------------------------------------------------- C21
\* C21 as claimed: every Cell parse returns has a non-empty comment and a
\* non-empty code.
C21_ParsedNonEmpty ==
    (Parsed /\ parse_result.ok) =>
        (parse_result.cell.comment # <<>> /\ parse_result.cell.code # <<>>)

\* -------------------------------------------------------------------- C22
ErrNamesComment ==
    parse_result.err \in {"Failed to parse <comment> tag from response",
                          "Comment tag is empty"}
ErrNamesCode ==
    parse_result.err \in {"Failed to parse <code> tag from response",
                          "Code tag is empty"}

\* C22: for a text that is not a JSON document, with the comment region or
\* the code region absent or blank, parse fails, returns no Cell, and its
\* error names a region that is absent or blank.
C22_MissingRegionFails ==
    (/\ Parsed /\ ~Structured
     /\ \/ BadRegion(parse_text.text, "<comment>", "</comment>")
        \/ BadRegion(parse_text.text, "<code>", "</code>"))
    => /\ ~parse_result.ok
       /\ parse_result.cell = NoCell
       /\ \/ ErrNamesComment /\ BadRegion(parse_text.text, "<comment>", "</comment>")
          \/ ErrNamesCode /\ BadRegion(parse_text.text, "<code>", "</code>")

\* A text with a comment and a blank code region was refused for its code.
C22_Witness ==
    /\ Parsed /\ ~Structured /\ ~parse_result.ok
    /\ ~BadRegion(parse_text.text, "<comment>", "</comment>")
    /\ HasRegion(parse_text.text, "<code>", "</code>")
    /\ Blank(RegionContent(parse_text.text, "<code>", "</code>"))
    /\ parse_result.err = "Code tag is empty"

\* -------------------------------------------------------------------- C23
\* C23: for a text that is not a JSON document, with comment and code
\* regions that are not blank, parse returns a Cell with the trimmed content
\* of the first comment region and of the first code region and no output.
C23_TrimmedFirstRegions ==
    (/\ Parsed /\ ~Structured
     /\ ~BadRegion(parse_text.text, "<comment>", "</comment>")
     /\ ~BadRegion(parse_text.text, "<code>", "</code>"))
    => /\ parse_result.ok
       /\ IsTrimOf(parse_result.cell.comment,
                   RegionContent(parse_text.text, "<comment>", "</comment>"))
       /\ IsTrimOf(parse_result.cell.code,
                   RegionContent(parse_text.text, "<code>", "</code>"))
       /\ parse_result.cell.output = None

\* Of two comment regions and two code regions the first were taken, after
\* chatter, and the final flag was read.
C23_Witness ==
    /\ Parsed /\ parse_result.ok
    /\ parse_text.text[1] = "Sure."
    /\ Cardinality(Places(parse_text.text, "<comment>")) = 2
    /\ Cardinality(Places(parse_text.text, "<code>")) = 2
    /\ parse_result.cell = Cell(<<"first">>, <<"print(a)">>, None, TRUE)


\* -------------------------------------------------------------------- C24
\* The globals of a new Environment with the context "".
FreshGlobals(g) ==
    /\ g["context"] = Str(<<>>)
    /\ \A n \in GlobalNames \ {"context"} : g[n] = Nil
    /\ \A f \in FunctionNames : g[f].t = "function" /\ g[f].s[1] = f

\* C24, the steps: a snapshot has the prompt and the entries the live Repl
\* has when it is taken and its own new Environment; taking it changes
\* nothing of the live Repl; an evaluation on the live Repl leaves it as it is.
C24_StepSnapshot ==
    /\ (held = NoHeld /\ held'.kind = "snapshot") =>
          /\ held'.prompt = prompt
          /\ held'.entries = entries
          /\ FreshGlobals(held'.g)
          /\ UNCHANGED replVars
    /\ (Evaluated /\ held.kind = "snapshot") => held' = held

\* C24, the states: a snapshot holds the entries the live Repl had when it
\* was taken, which the live Repl has only added to.
C24_SnapshotBehind ==
    held.kind = "snapshot" =>
        (held.prompt = prompt /\ IsPrefix(held.entries, entries)
         /\ FreshGlobals(held.g))

\* C24: a snapshot is a copy of the prompt and the entries, independent of
\* the live Repl and its Environment.
C24_SnapshotIsCopy == []C24_SnapshotBehind /\ [][C24_StepSnapshot]_vars

\* A snapshot taken after one evaluation is unchanged by the next one.
C24_Witness ==
    /\ held.kind = "snapshot"
    /\ Len(held.entries) = 1 /\ Len(entries) = 2
    /\ globals["a"] = Str(<<"y">>) /\ held.g["a"] = Nil
    /\ entries[2].output = Some(<<"y">>)

\* -------------------------------------------------------------------- C27
\* C27: the Repl deserialized from the serialization of the live Repl has
\* its prompt and its entries, field by field and in order, and a new
\* Environment with the context "" and no other global; the live Repl is
\* left as it is.
C27_RoundTrip ==
    [][(held = NoHeld /\ held'.kind = "restored") =>
        /\ held'.prompt = prompt
        /\ Len(held'.entries) = Len(entries)
        /\ \A k \in 1..Len(entries) :
              /\ held'.entries[k].comment = entries[k].comment
              /\ held'.entries[k].code = entries[k].code
              /\ held'.entries[k].output = entries[k].output
              /\ held'.entries[k].final = entries[k].final
        /\ FreshGlobals(held'.g)
        /\ UNCHANGED replVars]_vars

\* A Repl with a Cell without output, a Cell with output and a bound global
\* came back with both Cells and without the global.
C27_Witness ==
    /\ held.kind = "restored"
    /\ Len(held.entries) = 2
    /\ held.entries[1].output = None /\ held.entries[2].output = Some(<<"x">>)
    /\ globals["a"] = Str(<<"x">>) /\ held.g["a"] = Nil
    /\ globals["context"] = Str(<<"ctx">>) /\ held.g["context"] = Str(<<>>)


\* -------------------------------------------------------------------- C25
\* C25: the text given to the model, rendered from the snapshot, is the
\* rendering of the live Repl's prompt and entries, and stays so while the
\* Repl is not modified; rendering leaves the Repl and its Environment as
\* they are.
C25_RenderedIsLive ==
    pc = "awaiting" => pending = Some(to_markdown(prompt, entries))

C25_RenderStep ==
    (~pending.some /\ pending'.some) =>
        (UNCHANGED replVars /\ pending'.s = to_markdown(prompt', entries'))

Nth(P, k) == CHOOSE q \in P : Cardinality({r \in P : r < q}) = k - 1

\* The part of the text that the k-th of n cells takes, by its heading.
CellFrom(text, k) == Nth(Places(text, "# "), k)
CellTo(text, k, n) == IF k = n THEN Len(text) ELSE Nth(Places(text, "# "), k + 1) - 1

\* C26, for a rendered text: the prompt is first when there is one; the
\* cells follow in the order of the entries, each with its comment and its
\* code; a cell has an Output block exactly when its entry has an output.
Rendered(text, p, es) ==
    /\ IF p # <<>> THEN IsPrefix(<<"Prompt:", "\n">> \o p \o <<"\n">>, text)
       ELSE Places(text, "Prompt:") = {}
    /\ Cardinality(Places(text, "# ")) = Len(es)
    /\ Cardinality(Places(text, "Output:")) =
          Cardinality({k \in 1..Len(es) : es[k].output.some})
    /\ \A k \in 1..Len(es) :
          /\ SubSeq(text, CellFrom(text, k) + 1, CellFrom(text, k) + Len(es[k].comment))
                = es[k].comment
          /\ SubSeq(text, CellFrom(text, k) + Len(es[k].comment) + 4,
                    CellFrom(text, k) + Len(es[k].comment) + 3 + Len(es[k].code))
                = es[k].code
          /\ es[k].output.some <=>
                \E q \in Places(text, "Output:") :
                    CellFrom(text, k) < q /\ q <= CellTo(text, k, Len(es))

\* C26: the text given to the model has the prompt first, the cells in the
\* order of the entries and an Output block for the entries with an output
\* only.
C26_RenderLayout ==
    pc = "awaiting" => \A text \in {pending.s} : Rendered(text, prompt, entries)

\* A rendering of a prompt and two cells, the first without output.
C26_Witness ==
    /\ pc = "awaiting" /\ prompt # <<>> /\ Len(entries) = 2
    /\ entries[1].output = None /\ entries[2].output = Some(<<"x">>)
    /\ Cardinality(Places(pending.s, "Output:")) = 1


\* -------------------------------------------------------------------- C28
\* The codes that ask the model, with the expression they pass as prompt.
AskCodes ==
    { [code |-> <<"a = llm_query('q')">>, arg |-> Lit(<<"q">>)],
      [code |-> <<"a = llm_query(context)">>, arg |-> Var("context")],
      [code |-> <<"a = llm_query(b)">>, arg |-> Var("b")] }

\* The globals of a second Environment.
OtherGlobals ==
    { [n \in DOMAIN globals |-> IF n \in GlobalNames THEN o[n] ELSE globals[n]] :
        o \in [GlobalNames -> {Nil, Str(<<"x">>), Str(<<"z">>), Str(<<"big">>)}] }

C28_RequestStep ==
    \A ask \in AskCodes :
        (execLog' = Append(execLog, ask.code) /\ caller # "sync") =>
            /\ EvalExpr(ask.arg, globals).t = "str" =>
                  lastEval'.reqs = <<EvalExpr(ask.arg, globals).s>>
            /\ \A other \in OtherGlobals, llm \in LlmAnswers :
                  EvalExpr(ask.arg, other) = EvalExpr(ask.arg, globals) =>
                      Environment_eval(ask.code, other, <<>>, llm).reqs = lastEval'.reqs

\* C28: the requests an evaluation sends to the model are the prompt
\* arguments of its llm_query calls; an Environment with other globals and
\* the same prompt argument sends the same requests.
C28_RequestFromPromptOnly == [][C28_RequestStep]_vars

\* llm_query('q') has run in an Environment whose context is not empty.
C28_Witness ==
    /\ execLog # <<>> /\ execLog[Len(execLog)] = <<"a = llm_query('q')">>
    /\ lastEval.reqs = << <<"q">> >>
    /\ globals["context"] \notin {Nil, Str(<<>>)}

\* -------------------------------------------------------------------- C29
C29_NoRuntimeStep ==
    \A ask \in AskCodes :
        (/\ execLog' = Append(execLog, ask.code)
         /\ caller = "sync"
         /\ EvalExpr(ask.arg, globals).t = "str") =>
            /\ ~lastEval'.panic
            /\ ~lastEval'.ok
            /\ Len(entries') = Len(entries) + 1
            /\ entries'[Len(entries')].output.some

\* C29: when code calls llm_query on a thread that no multi-thread runtime
\* drives, the evaluation returns an error, which Repl::eval stores as the
\* output of the new Cell; the call does not panic.
C29_NoRuntimeIsError == [][C29_NoRuntimeStep]_vars

\* -------------------------------------------------------------------- C30
\* The codes that call token_trunc on the global a, with their budget.
TruncCodes ==
    { [code |-> <<"b = token_trunc(a, 0)">>, n |-> 0],
      [code |-> <<"b = token_trunc(a, 1)">>, n |-> 1],
      [code |-> <<"b = token_trunc(a, 2)">>, n |-> 2],
      [code |-> <<"b = token_trunc(a, 3)">>, n |-> 3],
      [code |-> <<"b = token_trunc(a, 1000)">>, n |-> 1000] }

C30_TruncStep ==
    \A tc \in TruncCodes :
        (/\ execLog' = Append(execLog, tc.code)
         /\ globals["a"].t = "str"
         /\ Len(encode_with_special_tokens(globals["a"].s)) <= tc.n) =>
            /\ lastEval'.ok
            /\ globals'["b"] = globals["a"]

\* C30: token_trunc(t, n) returns t when t has at most n tokens.
C30_WithinBudgetUnchanged == [][C30_TruncStep]_vars

\* token_trunc has returned a text of exactly as many tokens as its budget,
\* one of them half of a multi-byte character.
C30_Witness ==
    /\ execLog # <<>> /\ execLog[Len(execLog)] = <<"b = token_trunc(a, 3)">>
    /\ globals["a"] = Str(<<"x", "E">>)
    /\ globals["b"] = Str(<<"x", "E">>)
    /\ lastEval.ok


\* -------------------------------------------------------------------- C31
C31_TruncStep ==
    \A tc \in TruncCodes :
        (execLog' = Append(execLog, tc.code) /\ globals["a"].t = "str") =>
            \A t \in {globals["a"].s} : \A b \in {globals'["b"]} :
                /\ lastEval'.ok
                /\ b.t = "str"
                /\ IsPrefix(b.s, t)
                /\ Len(encode_with_special_tokens(b.s)) <= tc.n
                /\ encode_with_special_tokens(b.s) =
                      SubSeq(encode_with_special_tokens(t), 1,
                             IF Len(encode_with_special_tokens(t)) < tc.n
                             THEN Len(encode_with_special_tokens(t)) ELSE tc.n)

\* C31: token_trunc(t, n) returns the text of the first min(n, len) tokens
\* of t: at most n tokens, a leading portion of t.
C31_PrefixTruncation == [][C31_TruncStep]_vars


\* -------------------------------------------------------------------- C32
\* The libraries of numeric, string, table and iteration primitives.
SafePrimitives == {"math", "string", "table", "coroutine", "utf8"}

\* C32: what the evaluated code finds bound in its globals is the safe
\* primitives, the three registered functions, the context and the
\* variables the scripts made; no library for files, processes or loading.
C32_OnlyInjected ==
    \A n \in DOMAIN globals :
        globals[n] # Nil => n \in SafePrimitives \cup FunctionNames \cup GlobalNames


\* -------------------------------------------------------------------- C33
\* What print calls with the given lines leave in a buffer that held acc.
RECURSIVE JoinedPrints(_, _)
JoinedPrints(lines, acc) ==
    IF lines = <<>> THEN acc
    ELSE JoinedPrints(Tail(lines),
                      IF acc = <<>> THEN Head(lines) ELSE acc \o <<"\n">> \o Head(lines))

\* C33: the text of an evaluation of print calls is what those calls append
\* to an empty buffer, whatever the buffer held when the evaluation began.
C33_OnlyThisCallsPrints ==
    [][(Evaluated /\ lastEval'.ok /\ PrintsOnly(EvaluatedCode)) =>
        \A text \in {JoinedPrints(PrintLines(EvaluatedCode, globals), <<>>)} :
            /\ output_buffer' = text
            /\ Len(encode_with_special_tokens(text)) <= MAX_OUTPUT_TOKENS =>
                  Stored = (IF text = <<>> THEN None ELSE Some(text))]_vars

\* An evaluation printed and failed, and the next one printed nil only.
C33_Witness ==
    /\ Len(execLog) = 2
    /\ execLog[1] = <<"print('old')", "\n", "error('boom')">>
    /\ execLog[2] = <<"print(a)">>
    /\ output_buffer = <<"nil">>
    /\ entries[2].output = Some(<<"nil">>)

\* -------------------------------------------------------------------- C38
C38_CapturedStep ==
    (Evaluated /\ EvaluatedCode = <<"print(a)">>) =>
        (lastEval'.ok /\ output_buffer' = to_string(globals["a"]))

C38_Registered ==
    \A f \in FunctionNames : globals[f].t = "function" /\ globals[f].s[1] = f

\* C38: after any sequence of evaluations the globals print, llm_query and
\* token_trunc are the functions Environment::new registered, and a print
\* of a later evaluation is captured.
C38_FunctionsStay == []C38_Registered /\ [][C38_CapturedStep]_vars

\* -------------------------------------------------------------------- C39
PrintThenFail == <<"print('old')", "\n", "error('boom')">>

\* What the code printed before it failed is in no stored output and not
\* in the rendered text.
C39_NotPrinted ==
    /\ \A k \in 1..Len(entries) :
          entries[k].output.some =>
              \A i \in 1..Len(entries[k].output.s) : entries[k].output.s[i] # "old"
    /\ \A text \in {to_markdown(prompt, entries)} :
          \A i \in 1..Len(text) : text[i] # "old"

\* The code printed, failed, and its Cell has the error text as output.
C39_FailStep ==
    (Evaluated /\ EvaluatedCode = PrintThenFail /\ globals["print"].t = "function") =>
        /\ ~lastEval'.ok
        /\ output_buffer' = <<"old">>
        /\ Stored = Some(<<"Execution error: ", "runtime error: ", "boom">>)

\* C39: the Cell of a code that prints and then fails has the formatted
\* error text as its output; what it printed is in no stored output, of
\* this Cell or a later one, and not in the rendered text.
C39_ErrorTextOnly == []C39_NotPrinted /\ [][C39_FailStep]_vars

\* A code printed and failed, and a later code printed.
C39_Witness ==
    /\ Len(entries) = 2
    /\ entries[1].code = PrintThenFail
    /\ entries[1].output.some
    /\ output_buffer # <<>>
    /\ entries[2].code = <<"print(a, b)">>
    /\ entries[2].output = Some(<<"nil", "\t", "nil">>)


\* -------------------------------------------------------------------- C34
\* The llm_query calls of a code.
AskStatements(code) ==
    {i \in 1..Len(Statements(code)) : StmtOf(Statements(code)[i]).op = "llm"}

\* The requests out to the model in a state: the one of generate.
C34_OneOut == pending.some => pc = "awaiting"

\* llm_query blocks the evaluation until its answer is there, so its
\* requests are made and answered within the step that evaluates.  They are
\* made when the request of generate has been answered and none is out
\* again, one per llm_query call at most.
C34_AskStep ==
    lastEval'.reqs # <<>> =>
        /\ pc = "awaiting" /\ pending.some
        /\ pending' = None
        /\ Len(respLog') = Len(respLog) + 1 /\ respLog'[Len(respLog')].ok
        /\ Evaluated
        /\ Len(lastEval'.reqs) <= Cardinality(AskStatements(EvaluatedCode))

PromptedOutputTokens == 100

\* C35: no stored output of an evaluation that succeeded holds more than
\* 100 tokens of the evaluation's text.
C35_TruncatedAt100 ==
    \A k \in 1..Len(entries) :
        \A o \in {entries[k].output.s} :
            (entries[k].output.some /\ ~IsPrefix(<<"Execution error: ">>, o)) =>
                Len(encode_with_special_tokens(o)) <= PromptedOutputTokens + Len(Marker)

\* -------------------------------------------------------------------- C36
C36_SnapshotStepSameBridge ==
    (held = NoHeld /\ held'.kind = "snapshot") =>
        (FreshGlobals(held'.g) /\ held'.g["llm_query"] = globals["llm_query"])

\* C36 as claimed: the Environment of a snapshot is fresh and its llm_query
\* asks the provider and model of the live Repl.
C36_SnapshotSameBridge == [][C36_SnapshotStepSameBridge]_vars

C36_SnapshotStepFixedBridge ==
    (held = NoHeld /\ held'.kind = "snapshot") =>
        /\ FreshGlobals(held'.g)
        /\ held'.g["llm_query"].s = <<"llm_query", "ollama", "qwen3:30b">>

\* C36 as amended: the Environment of a snapshot is fresh and its llm_query
\* asks Ollama's qwen3:30b, whatever the client of the live Repl.
C36_SnapshotFixedBridge == [][C36_SnapshotStepFixedBridge]_vars

\* A snapshot of a Repl whose client is OpenRouter and which has bound a.
C36_Witness ==
    /\ held.kind = "snapshot"
    /\ globals["llm_query"].s[2] = "openrouter"
    /\ globals["a"] # Nil /\ held.g["a"] = Nil
    /\ held.g["llm_query"].s[2] = "ollama"

\* -------------------------------------------------------------------- C37
\* The text has a final region whose content, trimmed and lower-cased, is
\* "true" or "yes".
FinalSaysYes(text) ==
    /\ HasRegion(text, "<final>", "</final>")
    /\ \E v \in {"true", "TRUE", "True", "yes", "YES", "Yes"} :
          IsTrimOf(<<v>>, RegionContent(text, "<final>", "</final>"))

\* C37: on the tagged path the final flag of the Cell is true exactly for
\* such a text, and parse succeeds or fails by the comment and code regions
\* alone.
C37_FinalFlag ==
    (Parsed /\ ~Structured) =>
        /\ parse_result.ok <=>
              (/\ ~BadRegion(parse_text.text, "<comment>", "</comment>")
               /\ ~BadRegion(parse_text.text, "<code>", "</code>"))
        /\ parse_result.ok => (parse_result.cell.final <=> FinalSaysYes(parse_text.text))

\* A final region of " Yes" and a newline gave a final Cell.
C37_Witness ==
    /\ Parsed /\ ~Structured /\ parse_result.ok /\ parse_result.cell.final
    /\ \E i \in 1..Len(parse_text.text) : parse_text.text[i] = "Yes"

\* -------------------------------------------------------------------- C40
C40_Budget ==
    /\ remaining \in 0..max_iterations
    /\ rounds + remaining = max_iterations

C40_RoundStep ==
    /\ (pc = "call" /\ pc' = "awaiting") =>
          (remaining > 0 /\ remaining' = remaining - 1 /\ rounds' = rounds + 1)
    /\ ~(pc = "call" /\ pc' = "awaiting") =>
          (remaining' = remaining /\ rounds' = rounds)

\* C40: a next() that starts a round takes one from the remaining budget,
\* whatever the round comes to; nothing else changes the budget; it is never
\* negative, and the rounds started and the budget left add up to
\* max_iterations.
C40_BudgetCounts == []C40_Budget /\ [][C40_RoundStep]_vars

\* Two rounds have run, one of them failed, and one is left of three.
C40_Witness ==
    /\ errYielded /\ caller = "library"
    /\ max_iterations = 3 /\ rounds = 2 /\ remaining = 1
    /\ Len(entries) = 1


====
